---------------------------- MODULE Spec2Model ----------------------------
(***************************************************************************)
(* Balloon Pop Ultimate: the simulation core (GameEngine, PowerUpManager,  *)
(* Balloon, ParticleSystem) as a state machine.                            *)
(*                                                                         *)
(* Units.  Times are integers in milliseconds: the clock performance.now(),*)
(* the frame timestamp, births and lifespans.  The source keeps comboTimer *)
(* and PowerUp.timeLeft/duration in seconds (deltaTime = ms / 1000); here  *)
(* they are kept in milliseconds, i.e. the source's value times 1000.      *)
(* Lengths are integers in tenths of a pixel.  Speeds and probabilities    *)
(* are in thousandths.  A Math.random() result u/1000 is the integer u in  *)
(* 0..999.  Particle.life is in thousandths of a frame.                    *)
(***************************************************************************)
EXTENDS Integers, Sequences, FiniteSets, TLC

VARIABLES
    state,           \* GameEngine.state : GameState
    balloons,        \* GameEngine.balloons, oldest first
    particles,       \* ParticleSystem.particles
    activePowerUps,  \* PowerUpManager.activePowerUps, a Map in insertion order
    lastUpdateTime,  \* GameEngine.lastUpdateTime
    lastSpawnTime,   \* GameEngine.lastSpawnTime
    comboTimer,      \* GameEngine.comboTimer
    comboCount,      \* GameEngine.comboCount
    now,             \* performance.now()
    events,          \* GameEvents notifications emitted by the last call
    callbacks,       \* PowerUpManager callbacks invoked by the last call
    lastOp,          \* the call made last: its name, its input, what it found
    gameOverCalls,   \* onGameOver notifications since the last resetGame
    clockSteps,      \* how many times the clock has advanced
    persistence,     \* useFirebase's state, FirebaseService's fields, the stores
    driver           \* useGameState: its running flag, its renders, its frame

vars == << state, balloons, particles, activePowerUps, lastUpdateTime,
           lastSpawnTime, comboTimer, comboCount, now, events, callbacks,
           lastOp, gameOverCalls, clockSteps, persistence, driver >>

---------------------------------------------------------------------------
(* Bounds of the model *)

\* Frames (update calls) in a run of Spec.
MaxClockSteps == 2

\* Frames in a run of SpecBombs.
MaxBombSteps == 5

\* update calls of the registry in a run of SpecRegistry.
MaxRegistrySteps == 2

\* onGameOver notifications counted in one session.
MaxGameOverCalls == 2

\* The frames of a run of SpecNormals.
MaxNormalSteps == 5

\* The frames of a run of SpecCull.
MaxCullSteps == 4

\* The frames of a run of SpecEffects.
MaxEffectSteps == 4

\* The frames of a run of SpecDefuser.
MaxDefuserSteps == 3

\* The frames of a run of SpecHighScore.
MaxHighScoreSteps == 5

\* The frames of a run of SpecDriver.
MaxDriverSteps == 3

---------------------------------------------------------------------------
(* types/game *)

PowerUpTypes == << "slow", "multiplier", "freeze", "magnet", "defuser" >>

BalloonTypeNames ==
    { "normal", "special", "heart", "bomb", "slow", "multiplier", "freeze",
      "magnet", "defuser" }

BALLOON_TYPES ==
    [ normal     |-> [type |-> "normal",     points |-> 1,  description |-> "Regular balloon"],
      special    |-> [type |-> "special",    points |-> 5,  description |-> "Extra points!"],
      heart      |-> [type |-> "heart",      points |-> 0,  description |-> "Restores one life"],
      bomb       |-> [type |-> "bomb",       points |-> -1, description |-> "Lose a life!"],
      slow       |-> [type |-> "slow",       points |-> 10, description |-> "Slows down all balloons"],
      multiplier |-> [type |-> "multiplier", points |-> 10, description |-> "Doubles your score"],
      freeze     |-> [type |-> "freeze",     points |-> 10, description |-> "Stops all balloons"],
      magnet     |-> [type |-> "magnet",     points |-> 10, description |-> "Pulls balloons to center"],
      defuser    |-> [type |-> "defuser",    points |-> 10, description |-> "Makes bombs safe"] ]

DEFAULT_GAME_CONFIG ==
    [ spawnRate       |-> [easy |-> 600, medium |-> 400, hard |-> 250],
      baseSpeed       |-> [easy |-> 800, medium |-> 1200, hard |-> 1800],
      bombChance      |-> [easy |-> 50,  medium |-> 100,  hard |-> 150],
      powerupChance   |-> [easy |-> 50,  medium |-> 80,   hard |-> 100],
      powerupDuration |-> 10000,
      maxLives        |-> 3,
      comboTimeout    |-> 1000 ]

\* new GameEngine(gameEvents, dimensions): the default configuration.
config == DEFAULT_GAME_CONFIG

\* The canvas handed to the constructor, in tenths of a pixel.
dimensions == [width |-> 1000, height |-> 2000]

Difficulties == { "easy", "medium", "hard" }

---------------------------------------------------------------------------
(* Arithmetic helpers *)

Abs(n) == IF n < 0 THEN -n ELSE n

Min(a, b) == IF a <= b THEN a ELSE b

Max(a, b) == IF a >= b THEN a ELSE b

\* a / b rounded to the nearest integer (b > 0)
RoundDiv(a, b) == IF a >= 0 THEN (a + b \div 2) \div b
                            ELSE -(((-a) + b \div 2) \div b)

RECURSIVE SqrtIter(_, _)
SqrtIter(n, g) ==
    LET h == (g + n \div g) \div 2
    IN  IF h >= g THEN g ELSE SqrtIter(n, h)

\* Math.sqrt on non-negative integers, rounded down
Sqrt(n) == IF n <= 0 THEN 0 ELSE SqrtIter(n, n)

\* The sequence s without its element at position i (Array.splice(i, 1))
Splice(s, i) == SubSeq(s, 1, i - 1) \o SubSeq(s, i + 1, Len(s))

---------------------------------------------------------------------------
(* PowerUpManager.  A registry value is                                    *)
(*   [activePowerUps: the Map as a sequence of entries in insertion order, *)
(*    callbacks: the callbacks invoked so far, oldest first].              *)

MapHas(m, type) == \E i \in 1..Len(m) : m[i].type = type

MapGet(m, type) == m[CHOOSE i \in 1..Len(m) : m[i].type = type]

\* Map.set: an existing key keeps its place, a new key goes last.
MapSet(m, type, powerUp) ==
    IF MapHas(m, type)
    THEN [i \in 1..Len(m) |-> IF m[i].type = type THEN powerUp ELSE m[i]]
    ELSE Append(m, powerUp)

MapDelete(m, type) == SelectSeq(m, LAMBDA p : p.type # type)

Notify(cb, powerUp) == [cb |-> cb, powerUp |-> powerUp]

\* deactivatePowerUp that marks the entry and leaves it in the map.
deactivatePowerUpKeeping(reg, type) ==
    IF MapHas(reg.activePowerUps, type)
    THEN LET powerUp == [MapGet(reg.activePowerUps, type)
                           EXCEPT !.active = FALSE, !.timeLeft = 0]
         IN  [ activePowerUps |-> MapSet(reg.activePowerUps, type, powerUp),
               callbacks      |-> Append(reg.callbacks, Notify("onDeactivate", powerUp)) ]
    ELSE reg

deactivatePowerUp(reg, type) ==
    IF MapHas(reg.activePowerUps, type)
    THEN LET powerUp == [MapGet(reg.activePowerUps, type)
                           EXCEPT !.active = FALSE, !.timeLeft = 0]
         IN  [ activePowerUps |-> MapDelete(reg.activePowerUps, type),
               callbacks      |-> Append(reg.callbacks, Notify("onDeactivate", powerUp)) ]
    ELSE reg

\* activatePowerUp without the deactivation, adding the old remaining time.
activatePowerUpStacking(reg, type, duration) ==
    LET old == IF MapHas(reg.activePowerUps, type)
               THEN MapGet(reg.activePowerUps, type).timeLeft
               ELSE 0
        powerUp == [type |-> type, duration |-> duration, active |-> TRUE,
                    timeLeft |-> duration + old]
    IN  [ activePowerUps |-> MapSet(reg.activePowerUps, type, powerUp),
          callbacks      |-> Append(reg.callbacks, Notify("onActivate", powerUp)) ]

activatePowerUp(reg, type, duration) ==
    LET r1 == IF MapHas(reg.activePowerUps, type)
              THEN deactivatePowerUp(reg, type)
              ELSE reg
        powerUp == [type |-> type, duration |-> duration, active |-> TRUE,
                    timeLeft |-> duration]
    IN  [ activePowerUps |-> MapSet(r1.activePowerUps, type, powerUp),
          callbacks      |-> Append(r1.callbacks, Notify("onActivate", powerUp)) ]

\* One entry of update's forEach: the entry after the decrement.
Decremented(powerUp, deltaTime) ==
    LET t == powerUp.timeLeft - deltaTime
    IN  IF t <= 0 THEN [powerUp EXCEPT !.timeLeft = t, !.active = FALSE]
                  ELSE [powerUp EXCEPT !.timeLeft = t]

\* update that ends an entry only when its time has gone below zero.
powerUpUpdateBelowZero(reg, deltaTime) ==
    LET m    == reg.activePowerUps
        dec  == [i \in 1..Len(m) |->
                   [m[i] EXCEPT !.timeLeft = @ - deltaTime,
                                !.active = (m[i].timeLeft - deltaTime >= 0)]]
        cbs  == [i \in 1..Len(m) |->
                   Notify(IF dec[i].timeLeft < 0 THEN "onDeactivate"
                                                 ELSE "onUpdate", dec[i])]
    IN  [ activePowerUps |-> SelectSeq(dec, LAMBDA p : ~(p.timeLeft < 0)),
          callbacks      |-> reg.callbacks \o cbs ]

powerUpUpdate(reg, deltaTime) ==
    LET m    == reg.activePowerUps
        dec  == [i \in 1..Len(m) |-> Decremented(m[i], deltaTime)]
        cbs  == [i \in 1..Len(m) |->
                   Notify(IF dec[i].timeLeft <= 0 THEN "onDeactivate"
                                                  ELSE "onUpdate", dec[i])]
    IN  [ activePowerUps |-> SelectSeq(dec, LAMBDA p : ~(p.timeLeft <= 0)),
          callbacks      |-> reg.callbacks \o cbs ]

isActive(m, type) == MapHas(m, type) /\ MapGet(m, type).active

clearAll(reg) ==
    LET m == reg.activePowerUps
    IN  [ activePowerUps |-> << >>,
          callbacks      |-> reg.callbacks \o
              [i \in 1..Len(m) |->
                  Notify("onDeactivate", [m[i] EXCEPT !.active = FALSE])] ]

hasAnyActive(m) == Len(m) > 0

getSlowMotionMultiplier(m) == IF isActive(m, "slow") THEN 500 ELSE 1000

getScoreMultiplier(m) == IF isActive(m, "multiplier") THEN 2 ELSE 1

isFreezeActive(m) == isActive(m, "freeze")

isMagnetActive(m) == isActive(m, "magnet")

isDefuserActive(m) == isActive(m, "defuser")

---------------------------------------------------------------------------
(* Balloon *)

\* The seven entries of selectBalloonType's powerupTypes array.
SpawnPowerupTypes ==
    << "slow", "multiplier", "freeze", "magnet", "defuser", "heart", "special" >>

\* selectBalloonType drawing among the five timed effects only.
selectBalloonTypeFive(bombChance, powerupChance, uType, uIndex) ==
    IF uType < bombChance THEN "bomb"
    ELSE IF uType < bombChance + powerupChance
         THEN PowerUpTypes[((uIndex * Len(PowerUpTypes)) \div 1000) + 1]
         ELSE "normal"

\* uType, uIndex: the two Math.random() results, in thousandths.
selectBalloonType(bombChance, powerupChance, uType, uIndex) ==
    IF uType < bombChance THEN "bomb"
    ELSE IF uType < bombChance + powerupChance
         THEN SpawnPowerupTypes[((uIndex * Len(SpawnPowerupTypes)) \div 1000) + 1]
         ELSE "normal"

\* new Balloon(x, y, r, speed, type); uVx is the Math.random() of vx.  The
\* id, the colour and xOffset take no part in the simulation and are left out.
newBalloon(x, y, r, speed, type, uVx, birth) ==
    [ x |-> x, y |-> y, r |-> r, speed |-> speed, type |-> type,
      birth |-> birth, lifespan |-> 50000,
      vx |-> -200 + RoundDiv(uVx * 400, 1000),
      vy |-> -speed ]

\* Balloon.create placing the centre anywhere across the canvas.
createAnywhere(canvasWidth, canvasHeight, baseSpeed, bombChance, powerupChance, rnd, birth) ==
    LET r     == 250 + RoundDiv(rnd.r * 200, 1000)
        x     == RoundDiv(rnd.x * canvasWidth, 1000)
        y     == canvasHeight + r
        speed == baseSpeed + RoundDiv((rnd.speed - 500) * 400, 1000)
        type  == selectBalloonType(bombChance, powerupChance, rnd.type, rnd.index)
    IN  newBalloon(x, y, r, speed, type, rnd.vx, birth)

\* Balloon.create; rnd holds create's Math.random() results in call order.
create(canvasWidth, canvasHeight, baseSpeed, bombChance, powerupChance, rnd, birth) ==
    LET r     == 250 + RoundDiv(rnd.r * 200, 1000)
        x     == r + RoundDiv(rnd.x * (canvasWidth - 2 * r), 1000)
        y     == canvasHeight + r
        speed == baseSpeed + RoundDiv((rnd.speed - 500) * 400, 1000)
        type  == selectBalloonType(bombChance, powerupChance, rnd.type, rnd.index)
    IN  newBalloon(x, y, r, speed, type, rnd.vx, birth)

\* Math.sin of an angle in hundredths of a radian, in thousandths
\* (Bhaskara's rational approximation on each half period).
SinHalf(a) == (16 * a * (314 - a) * 1000) \div (5 * 314 * 314 - 4 * a * (314 - a))

Sin(angle) ==
    LET a == angle % 628
    IN  IF a <= 314 THEN SinHalf(a) ELSE -SinHalf(a - 314)

\* v * speedMultiplier * deltaTime * frameRate in tenths of a pixel: v in
\* thousandths of a pixel per frame, half the multiplier in halves, deltaTime
\* in ms, frameRate 60.
Step(v, halves, deltaTime) == RoundDiv(v * halves * deltaTime * 3, 10000)

\* Balloon.update with the magnet's pull taking precedence over freeze.
balloonUpdateMagnetFirst(b, deltaTime, freezeActive, slowMotionActive, magnetActive, canvasWidth, canvasHeight, clock) ==
    LET halves == IF slowMotionActive THEN 1 ELSE 2
    IN  IF magnetActive
        THEN LET centerX  == canvasWidth \div 2
                 centerY  == canvasHeight \div 2
                 dx       == centerX - b.x
                 dy       == centerY - b.y
                 distance == Sqrt(dx * dx + dy * dy)
                 pull     == Step(b.speed, halves, deltaTime) \div 2
             IN  IF distance > 100
                 THEN [b EXCEPT !.x = b.x + RoundDiv(dx * pull, distance),
                                !.y = b.y + RoundDiv(dy * pull, distance)]
                 ELSE b
        ELSE IF freezeActive THEN b
        ELSE LET time == (clock - b.birth) \div 5
             IN  [b EXCEPT
                    !.y = b.y + Step(b.vy, halves, deltaTime),
                    !.x = b.x + Step(b.vx, halves, deltaTime)
                              + RoundDiv(Sin(time) * 5, 1000)]

balloonUpdate(b, deltaTime, freezeActive, slowMotionActive, magnetActive, canvasWidth, canvasHeight, clock) ==
    IF freezeActive THEN b
    ELSE
      LET halves == IF slowMotionActive THEN 1 ELSE 2
      IN  IF magnetActive
          THEN LET centerX  == canvasWidth \div 2
                   centerY  == canvasHeight \div 2
                   dx       == centerX - b.x
                   dy       == centerY - b.y
                   distance == Sqrt(dx * dx + dy * dy)
                   pull     == Step(b.speed, halves, deltaTime) \div 2
               IN  IF distance > 100
                   THEN [b EXCEPT !.x = b.x + RoundDiv(dx * pull, distance),
                                  !.y = b.y + RoundDiv(dy * pull, distance)]
                   ELSE b
          ELSE LET time == (clock - b.birth) \div 5
               IN  [b EXCEPT
                      !.y = b.y + Step(b.vy, halves, deltaTime),
                      !.x = b.x + Step(b.vx, halves, deltaTime)
                                + RoundDiv(Sin(time) * 5, 1000)]

isOffScreen(b, canvasHeight) == b.y < -b.r

isExpired(b, clock) == clock - b.birth > b.lifespan

\* containsPoint leaving out the circle's boundary.
containsPointInside(b, x, y) ==
    (x - b.x) * (x - b.x) + (y - b.y) * (y - b.y) < b.r * b.r

\* Math.sqrt(d2) <= r, decided on the squares (both sides are non-negative).
containsPoint(b, x, y) ==
    (x - b.x) * (x - b.x) + (y - b.y) * (y - b.y) <= b.r * b.r

\* getPoints giving the size of the table's value.
getPointsAbs(b) == Abs(BALLOON_TYPES[b.type].points)

getPoints(b) == BALLOON_TYPES[b.type].points

getDescription(b) == BALLOON_TYPES[b.type].description

---------------------------------------------------------------------------
(* Particle, ParticleSystem.  A particle is its life, 1000 at creation;    *)
(* position, velocity, size and colour are drawn and never read back.      *)
(* alpha = max(0, life / maxLife) with maxLife > 0, so alpha <= 0 exactly  *)
(* when life <= 0.                                                         *)

newParticle == 1000

particleUpdate(life, deltaTime) == life - deltaTime * 60

isDead(life) == life <= 0

addParticles(ps, count) == ps \o [i \in 1..count |-> newParticle]

addComboExplosion(ps, count) ==
    ps \o [i \in 1..Min(30, 10 + count * 3) |-> newParticle]

particleSystemUpdate(ps, deltaTime) ==
    SelectSeq([i \in 1..Len(ps) |-> particleUpdate(ps[i], deltaTime)],
              LAMBDA life : ~isDead(life))

---------------------------------------------------------------------------
(* GameEngine.  An engine value e is the record of the engine's fields,    *)
(* with the notifications emitted so far in the current call; the private  *)
(* methods are operators from engine values to engine values.              *)

Engine ==
    [ state          |-> state,
      balloons       |-> balloons,
      particles      |-> particles,
      activePowerUps |-> activePowerUps,
      lastUpdateTime |-> lastUpdateTime,
      lastSpawnTime  |-> lastSpawnTime,
      comboTimer     |-> comboTimer,
      comboCount     |-> comboCount,
      events         |-> << >>,
      callbacks      |-> << >> ]

Registry(e) == [activePowerUps |-> e.activePowerUps, callbacks |-> e.callbacks]

\* The engine after a registry call.  The engine's own handlers forward
\* onActivate to events.onPowerUpActivate and ignore onDeactivate, onUpdate.
WithRegistry(e, reg) ==
    LET fresh == SubSeq(reg.callbacks, Len(e.callbacks) + 1, Len(reg.callbacks))
        acts  == SelectSeq(fresh, LAMBDA c : c.cb = "onActivate")
    IN  [e EXCEPT
           !.activePowerUps = reg.activePowerUps,
           !.callbacks = reg.callbacks,
           !.events = e.events \o
               [i \in 1..Len(acts) |-> << "onPowerUpActivate", acts[i].powerUp.type >>]]

Emit(e, ev) == [e EXCEPT !.events = Append(e.events, ev)]

getCurrentDifficulty == "easy"

updateDifficulty(e, difficulty) == e

\* addScore reporting the multiplier without applying it.
addScoreUnscaled(e, points) ==
    LET multiplier == getScoreMultiplier(e.activePowerUps)
        score      == e.state.score + points
    IN  Emit([e EXCEPT !.state.score = score],
             << "onScoreUpdate", score, multiplier >>)

addScore(e, points) ==
    LET multiplier  == getScoreMultiplier(e.activePowerUps)
        finalPoints == points * multiplier
        score       == e.state.score + finalPoints
    IN  Emit([e EXCEPT !.state.score = score],
             << "onScoreUpdate", score, multiplier >>)

resetCombo(e) == [e EXCEPT !.comboCount = 0, !.comboTimer = 0]

\* loseLife that leaves the combo alone.
loseLifeKeepingCombo(e) ==
    Emit([e EXCEPT !.state.lives = e.state.lives - 1], << "onLifeLost" >>)

loseLife(e) ==
    Emit(resetCombo([e EXCEPT !.state.lives = e.state.lives - 1]),
         << "onLifeLost" >>)

\* gainLife without the cap.
gainLifeUncapped(e) ==
    Emit([e EXCEPT !.state.lives = e.state.lives + 1], << "onLifeGained" >>)

gainLife(e) ==
    Emit([e EXCEPT !.state.lives = Min(e.state.lives + 1, config.maxLives)],
         << "onLifeGained" >>)

\* incrementCombo awarding the bonus from the first pop on.
incrementComboFromFirst(e) ==
    LET e1 == [e EXCEPT !.comboCount = e.comboCount + 1,
                        !.comboTimer = config.comboTimeout]
    IN  IF e1.comboCount >= 1
        THEN LET e2 == addScore(e1, e1.comboCount * 10)
                 e3 == [e2 EXCEPT !.particles =
                                     addComboExplosion(e2.particles, e2.comboCount)]
             IN  Emit(e3, << "onCombo", e3.comboCount >>)
        ELSE e1

incrementCombo(e) ==
    LET e1 == [e EXCEPT !.comboCount = e.comboCount + 1,
                        !.comboTimer = config.comboTimeout]
    IN  IF e1.comboCount > 1
        THEN LET e2 == addScore(e1, e1.comboCount * 10)
                 e3 == [e2 EXCEPT !.particles =
                                     addComboExplosion(e2.particles, e2.comboCount)]
             IN  Emit(e3, << "onCombo", e3.comboCount >>)
        ELSE e1

\* activatePowerUp that lets a running effect of the type run on.
engineActivatePowerUpKeeping(e, type) ==
    IF isActive(e.activePowerUps, type)
    THEN e
    ELSE WithRegistry(e, activatePowerUp(Registry(e), type, config.powerupDuration))

engineActivatePowerUp(e, type) ==
    WithRegistry(e, activatePowerUp(Registry(e), type, config.powerupDuration))

\* popBalloon's switch counting a defused bomb in the streak.
popEffectDefusedStreak(e, balloon, points) ==
    CASE balloon.type \in {"normal", "special"} ->
             incrementCombo(addScore(e, Abs(points)))
      [] balloon.type = "heart" -> gainLife(e)
      [] balloon.type = "bomb" ->
             IF ~isDefuserActive(e.activePowerUps)
             THEN loseLife(e)
             ELSE incrementCombo(addScore(e, 1))
      [] OTHER ->
             incrementCombo(addScore(engineActivatePowerUp(e, balloon.type), 10))

\* popBalloon's switch scoring a power-up's bonus before activating it.
popEffectBonusFirst(e, balloon, points) ==
    CASE balloon.type \in {"normal", "special"} ->
             incrementCombo(addScore(e, Abs(points)))
      [] balloon.type = "heart" -> gainLife(e)
      [] balloon.type = "bomb" ->
             IF ~isDefuserActive(e.activePowerUps)
             THEN loseLife(e)
             ELSE addScore(e, 1)
      [] OTHER ->
             incrementCombo(engineActivatePowerUp(addScore(e, 10), balloon.type))

\* popBalloon's switch adding a bomb's table value to the score.
popEffectSigned(e, balloon, points) ==
    CASE balloon.type \in {"normal", "special"} ->
             incrementCombo(addScore(e, Abs(points)))
      [] balloon.type = "heart" -> gainLife(e)
      [] balloon.type = "bomb" ->
             IF ~isDefuserActive(e.activePowerUps)
             THEN loseLife(addScore(e, points))
             ELSE addScore(e, 1)
      [] OTHER ->
             incrementCombo(addScore(engineActivatePowerUp(e, balloon.type), 10))

\* popBalloon's switch without the defuser test.
popEffectNoDefuser(e, balloon, points) ==
    CASE balloon.type \in {"normal", "special"} ->
             incrementCombo(addScore(e, Abs(points)))
      [] balloon.type = "heart" -> gainLife(e)
      [] balloon.type = "bomb" -> loseLife(e)
      [] OTHER ->
             incrementCombo(addScore(engineActivatePowerUp(e, balloon.type), 10))

\* The switch of popBalloon.
popEffect(e, balloon, points) ==
    CASE balloon.type \in {"normal", "special"} ->
             incrementCombo(addScore(e, Abs(points)))
      [] balloon.type = "heart" -> gainLife(e)
      [] balloon.type = "bomb" ->
             IF ~isDefuserActive(e.activePowerUps)
             THEN loseLife(e)
             ELSE addScore(e, 1)
      [] OTHER ->
             incrementCombo(addScore(engineActivatePowerUp(e, balloon.type), 10))

popBalloon(e, index) ==
    LET balloon == e.balloons[index]
        points  == getPoints(balloon)
        e1 == [e EXCEPT !.particles = addParticles(e.particles, 15)]
        e2 == popEffect(e1, balloon, points)
        e3 == [e2 EXCEPT !.balloons = Splice(e2.balloons, index)]
    IN  Emit(e3, << "onBalloonPop", balloon.type, points >>)

\* The indices of the balloons that contain the point.
Hits(bs, x, y) == { i \in 1..Len(bs) : containsPoint(bs[i], x, y) }

\* The backward scan of handleInput: the last balloon containing the point.
hitIndex(bs, x, y) == CHOOSE i \in Hits(bs, x, y) : \A j \in Hits(bs, x, y) : j <= i

\* handleInput that leaves the combo alone on a miss.
handleInputNoReset(e, x, y) ==
    IF Hits(e.balloons, x, y) # {}
    THEN popBalloon(e, hitIndex(e.balloons, x, y))
    ELSE e

handleInputBody(e, x, y) ==
    IF Hits(e.balloons, x, y) # {}
    THEN popBalloon(e, hitIndex(e.balloons, x, y))
    ELSE resetCombo(e)

\* handleInput ending the game itself when no life is left.
handleInputEnding(e, x, y) ==
    IF ~e.state.running THEN e
    ELSE LET e1 == handleInputBody(e, x, y)
         IN  IF e1.state.lives <= 0
             THEN [e1 EXCEPT !.state.running = FALSE, !.state.gameOver = TRUE]
             ELSE e1

handleInput(e, x, y) ==
    IF ~e.state.running THEN e ELSE handleInputBody(e, x, y)

spawnBalloons(e, currentTime, rnd, clock) ==
    LET spawnInterval == config.spawnRate[getCurrentDifficulty]
    IN  IF currentTime - e.lastSpawnTime > spawnInterval
        THEN [e EXCEPT
                !.balloons = Append(e.balloons,
                    create(dimensions.width, dimensions.height,
                           config.baseSpeed[getCurrentDifficulty],
                           config.bombChance[getCurrentDifficulty],
                           config.powerupChance[getCurrentDifficulty],
                           rnd, clock)),
                !.lastSpawnTime = currentTime]
        ELSE e

\* The loop's turn charging a life for every culled balloon but bombs and
\* hearts, off the top or not.
updateBalloonAtCharging(e, i, deltaTime, clock) ==
    LET balloon == balloonUpdate(e.balloons[i], deltaTime,
                                 isFreezeActive(e.activePowerUps),
                                 isActive(e.activePowerUps, "slow"),
                                 isMagnetActive(e.activePowerUps),
                                 dimensions.width, dimensions.height, clock)
    IN  IF isOffScreen(balloon, dimensions.height) \/ isExpired(balloon, clock)
        THEN LET e1 == [e EXCEPT !.balloons = Splice(e.balloons, i)]
             IN  IF balloon.type # "bomb" /\ balloon.type # "heart"
                 THEN loseLife(e1)
                 ELSE e1
        ELSE [e EXCEPT !.balloons[i] = balloon]

\* One turn of updateBalloons' loop, for the balloon at index i.
updateBalloonAt(e, i, deltaTime, clock) ==
    LET balloon == balloonUpdate(e.balloons[i], deltaTime,
                                 isFreezeActive(e.activePowerUps),
                                 isActive(e.activePowerUps, "slow"),
                                 isMagnetActive(e.activePowerUps),
                                 dimensions.width, dimensions.height, clock)
    IN  IF isOffScreen(balloon, dimensions.height) \/ isExpired(balloon, clock)
        THEN LET e1 == [e EXCEPT !.balloons = Splice(e.balloons, i)]
             IN  IF /\ ~isOffScreen(balloon, dimensions.height)
                    /\ balloon.type # "bomb"
                    /\ balloon.type # "heart"
                 THEN loseLife(e1)
                 ELSE e1
        ELSE [e EXCEPT !.balloons[i] = balloon]

RECURSIVE updateBalloonsFrom(_, _, _, _)
updateBalloonsFrom(e, i, deltaTime, clock) ==
    IF i < 1 THEN e
    ELSE updateBalloonsFrom(updateBalloonAt(e, i, deltaTime, clock), i - 1,
                            deltaTime, clock)

updateBalloons(e, deltaTime, clock) ==
    updateBalloonsFrom(e, Len(e.balloons), deltaTime, clock)

\* gameOver that records a score above highScore.
gameOverRecording(e) ==
    LET e1 == [e EXCEPT !.state.running = FALSE, !.state.gameOver = TRUE,
                        !.state.highScore = Max(e.state.highScore, e.state.score)]
        e2 == WithRegistry(e1, clearAll(Registry(e1)))
    IN  Emit(e2, << "onGameOver", e2.state.score >>)

gameOver(e) ==
    LET e1 == [e EXCEPT !.state.running = FALSE, !.state.gameOver = TRUE]
        e2 == WithRegistry(e1, clearAll(Registry(e1)))
    IN  Emit(e2, << "onGameOver", e2.state.score >>)

\* update's countdown that lets the count stand when the time is up.
comboCountdownKeeps(e, deltaTime) ==
    IF e.comboTimer > 0
    THEN [e EXCEPT !.comboTimer = e.comboTimer - deltaTime]
    ELSE e

\* update's combo countdown.
comboCountdown(e, deltaTime) ==
    IF e.comboTimer > 0
    THEN LET t == e.comboTimer - deltaTime
         IN  [e EXCEPT !.comboTimer = t,
                       !.comboCount = IF t <= 0 THEN 0 ELSE e.comboCount]
    ELSE e

\* update's last step testing lives < 0.
checkGameOverBelowZero(e) == IF e.state.lives < 0 THEN gameOver(e) ELSE e

\* update's last step.
checkGameOver(e) == IF e.state.lives <= 0 THEN gameOver(e) ELSE e

\* update's body with the power-up tick ahead of the spawn and the movement.
updateBodyTickFirst(e, currentTime, rnd, clock) ==
    LET deltaTime == currentTime - e.lastUpdateTime
        e1 == [e EXCEPT !.lastUpdateTime = currentTime]
        e2 == comboCountdown(e1, deltaTime)
        e3 == WithRegistry(e2, powerUpUpdate(Registry(e2), deltaTime))
        e4 == spawnBalloons(e3, currentTime, rnd, clock)
        e5 == updateBalloons(e4, deltaTime, clock)
        e6 == [e5 EXCEPT !.particles = particleSystemUpdate(e5.particles, deltaTime)]
    IN  checkGameOver(e6)

updateBody(e, currentTime, rnd, clock) ==
    LET deltaTime == currentTime - e.lastUpdateTime
        e1 == [e EXCEPT !.lastUpdateTime = currentTime]
        e2 == comboCountdown(e1, deltaTime)
        e3 == spawnBalloons(e2, currentTime, rnd, clock)
        e4 == updateBalloons(e3, deltaTime, clock)
        e5 == [e4 EXCEPT !.particles = particleSystemUpdate(e4.particles, deltaTime)]
        e6 == WithRegistry(e5, powerUpUpdate(Registry(e5), deltaTime))
    IN  checkGameOver(e6)

\* update without the running guard.
updateUnguarded(e, currentTime, rnd, clock) == updateBody(e, currentTime, rnd, clock)

update(e, currentTime, rnd, clock) ==
    IF ~e.state.running THEN e ELSE updateBody(e, currentTime, rnd, clock)

\* resetGame building the state of a new engine.
resetGameFromScratch(e) ==
    LET e1 == [e EXCEPT
                 !.state = [ running |-> FALSE, score |-> 0, highScore |-> 0,
                             lives |-> config.maxLives, level |-> 1,
                             combo |-> 0, gameStarted |-> FALSE,
                             gameOver |-> FALSE ],
                 !.balloons = << >>,
                 !.particles = << >>]
        e2 == WithRegistry(e1, clearAll(Registry(e1)))
    IN  [e2 EXCEPT !.comboTimer = 0, !.comboCount = 0]

resetGame(e) ==
    LET e1 == [e EXCEPT
                 !.state = [ running |-> FALSE, score |-> 0,
                             highScore |-> e.state.highScore,
                             lives |-> config.maxLives, level |-> 1,
                             combo |-> 0, gameStarted |-> FALSE,
                             gameOver |-> FALSE ],
                 !.balloons = << >>,
                 !.particles = << >>]
        e2 == WithRegistry(e1, clearAll(Registry(e1)))
    IN  [e2 EXCEPT !.comboTimer = 0, !.comboCount = 0]

startGame(e, difficulty, clock) ==
    LET e1 == resetGame(e)
    IN  updateDifficulty(
            [e1 EXCEPT !.state.running = TRUE, !.state.gameStarted = TRUE,
                       !.lastUpdateTime = clock, !.lastSpawnTime = clock],
            difficulty)

pauseGame(e) == [e EXCEPT !.state.running = FALSE]

\* resumeGame that leaves the delta-time anchor where it was.
resumeGameKeepingAnchor(e, clock) == [e EXCEPT !.state.running = TRUE]

resumeGame(e, clock) ==
    [e EXCEPT !.state.running = TRUE, !.lastUpdateTime = clock]

setHighScore(e, score) == [e EXCEPT !.state.highScore = score]

\* The getters.  getState returns a new object with the fields of state and
\* getBalloons a new array holding the engine's own Balloon objects;
\* getPowerUpManager and getParticleSystem return the engine's own objects.
getState(e) == e.state

getBalloons(e) == e.balloons

getPowerUpManager(e) == Registry(e)

getParticleSystem(e) == e.particles

---------------------------------------------------------------------------
(* Score persistence: useFirebase over FirebaseService.  A persistence     *)
(* value p holds the hook's initialized flag, the service's db and         *)
(* currentUser, the local-storage item balloonpop_highscore and the score  *)
(* of the remote document.  env says how the outside answers in one call.  *)
(* A call gives an outcome: raised or not, its value, the persistence      *)
(* after it.                                                               *)

DigitChars == << "0", "1", "2", "3", "4", "5", "6", "7", "8", "9" >>

\* score.toString() of a non-negative integer.
RECURSIVE toString(_)
toString(n) ==
    IF n < 10 THEN << DigitChars[n + 1] >>
    ELSE Append(toString(n \div 10), DigitChars[(n % 10) + 1])

DigitValue(c) == CHOOSE d \in 0..9 : DigitChars[d + 1] = c

\* parseInt(str, 10) of a string of digits.
RECURSIVE parseInt(_)
parseInt(str) ==
    IF Len(str) = 1 THEN DigitValue(str[1])
    ELSE parseInt(SubSeq(str, 1, Len(str) - 1)) * 10 + DigitValue(str[Len(str)])

\* localStorage.getItem gives null: nothing stored.
NoItem == << >>

\* docSnap.exists() is false.
NoDoc == -1

newPersistence ==
    [ initialized |-> FALSE, db |-> FALSE, currentUser |-> "none",
      localStorage |-> NoItem, remote |-> NoDoc ]

Returned(value, p) == [raised |-> FALSE, value |-> value, persistence |-> p]

Raised(p) == [raised |-> TRUE, persistence |-> p]

isGuest(p) == p.currentUser = "guest"

\* !this.db || !this.currentUser || this.isGuest()
LocalOnly(p) == ~p.db \/ p.currentUser = "none" \/ isGuest(p)

\* localStorage.setItem('balloonpop_highscore', score.toString()), then value.
setItemThen(p, score, env, value) ==
    IF env.setItem = "throws"
    THEN Raised(p)
    ELSE Returned(value, [p EXCEPT !.localStorage = toString(score)])

saveHighScore(p, score, env) ==
    IF LocalOnly(p)
    THEN setItemThen(p, score, env, TRUE)
    ELSE IF env.setDoc = "ok"
         THEN Returned(TRUE, [p EXCEPT !.remote = score])
         ELSE setItemThen(p, score, env, FALSE)

\* localStorage.getItem and parseInt, 0 when nothing is stored.
getItemScore(p, env) ==
    IF env.getItem = "throws"
    THEN Raised(p)
    ELSE Returned(IF p.localStorage = NoItem THEN 0 ELSE parseInt(p.localStorage), p)

getHighScore(p, env) ==
    IF LocalOnly(p)
    THEN getItemScore(p, env)
    ELSE IF env.getDoc = "ok"
         THEN Returned(IF p.remote = NoDoc THEN 0 ELSE p.remote, p)
         ELSE getItemScore(p, env)

\* saveScore without its try and catch.
saveScoreUncaught(p, score, env) ==
    IF ~p.initialized THEN Returned(FALSE, p) ELSE saveHighScore(p, score, env)

saveScore(p, score, env) ==
    IF ~p.initialized
    THEN Returned(FALSE, p)
    ELSE LET r == saveHighScore(p, score, env)
         IN  IF r.raised THEN Returned(FALSE, r.persistence) ELSE r

fetchHighScore(p, env) ==
    IF ~p.initialized
    THEN Returned(0, p)
    ELSE LET r == getHighScore(p, env)
         IN  IF r.raised THEN Returned(0, r.persistence) ELSE r

\* FirebaseService.initialize and the hook's effect: getConfig throws, or
\* initializeApp throws, or the sign-in throws, or all is well.
Initialized(p) ==
    { [p EXCEPT !.initialized = FALSE],
      [p EXCEPT !.initialized = TRUE, !.db = FALSE, !.currentUser = "guest"],
      [p EXCEPT !.initialized = TRUE, !.db = TRUE, !.currentUser = "guest"],
      [p EXCEPT !.initialized = TRUE, !.db = TRUE, !.currentUser = "uid"] }

---------------------------------------------------------------------------
(* The inputs of the model *)

\* Canvas sizes in tenths of a pixel: the model's canvas, the hook's default
\* 800 x 600, a 1920 x 1080 window.
CanvasSizes ==
    { dimensions, [width |-> 8000, height |-> 6000],
      [width |-> 19200, height |-> 10800] }

\* Type draws on both sides of each difficulty's bomb and power-up thresholds.
TypeDraws == { 0, 49, 50, 99, 100, 149, 150, 179, 180, 249, 250, 999 }

\* Index draws on both sides of each seventh of [0, 1).
IndexDraws ==
    { 0, 142, 143, 285, 286, 428, 429, 571, 572, 714, 715, 857, 858, 999 }

\* Math.random() results at the ends and in the middle of [0, 1).
RandGrid ==
    [ r : {0, 500, 999}, x : {0, 500, 999}, speed : {0, 500, 999},
      vx : {500}, type : {0, 999}, index : {0} ]
    \cup [ r : {500}, x : {500}, speed : {500}, vx : {500},
           type : TypeDraws, index : IndexDraws ]

\* The scores saved.
Scores == { 0, 7, 145 }

\* How setDoc and localStorage.setItem answer.
SaveEnvs == [ setDoc : {"ok", "fails"}, setItem : {"ok", "throws"} ]

\* How getDoc and localStorage.getItem answer.
FetchEnvs == [ getDoc : {"ok", "fails"}, getItem : {"ok", "throws"} ]

\* How far the clock advances from one frame to the next, in ms.
Deltas == { 700 }

\* The Math.random() results of one Balloon.create, in thousandths, that
\* give a balloon of radius 35 px and speed 0.8 in the middle of the canvas
\* with the type draw uType and the index draw uIndex.
Rand(uType, uIndex) ==
    [r |-> 500, x |-> 500, speed |-> 500, vx |-> 500, type |-> uType, index |-> uIndex]

\* A bomb, a normal balloon and each of the seven entries of the power-up branch.
Rands ==
    { Rand(0, 0), Rand(999, 0) }
    \cup { Rand(50, k) : k \in {0, 143, 286, 429, 572, 715, 858} }

\* A bomb or a slow balloon.
BombRands == { Rand(0, 0), Rand(50, 0) }

\* Where the player taps: the centre of a balloon (brought inside the
\* canvas), the rightmost point of the oldest balloon's circle, or a corner
\* of the canvas.
TapPoints ==
    { << Max(0, Min(balloons[i].x, dimensions.width)),
         Max(0, Min(balloons[i].y, dimensions.height)) >> : i \in 1..Len(balloons) }
    \cup { << Max(0, Min(balloons[i].x + balloons[i].r, dimensions.width)),
              Max(0, Min(balloons[i].y, dimensions.height)) >> :
              i \in 1..Min(1, Len(balloons)) }
    \cup { << 0, 0 >> }

\* The high score the page passes to setHighScore.
HighScores == { 10 }

\* The arguments of the registry's calls in SpecRegistry.
RegistryTypes == { "slow", "multiplier", "defuser" }

RegistryDurations == { 5000, 10000 }

RegistryDeltas == { 0, 700, 5000 }

---------------------------------------------------------------------------
(* The state machine *)

\* What a call finds when it starts.
Before ==
    [ lives |-> state.lives, score |-> state.score, comboCount |-> comboCount,
      comboTimer |-> comboTimer, activePowerUps |-> activePowerUps,
      balloons |-> balloons, lastUpdateTime |-> lastUpdateTime,
      lastSpawnTime |-> lastSpawnTime, state |-> state,
      particles |-> particles ]

\* What the first of a series of consecutive handleInput calls that each
\* popped a balloon found, and the types popped since, in order.
NoPops ==
    [ types |-> << >>, score |-> state.score, lives |-> state.lives,
      comboCount |-> comboCount, activePowerUps |-> activePowerUps ]

PopsSoFar ==
    IF lastOp.op = "handleInput" /\ lastOp.ran /\ lastOp.pops.types # << >>
    THEN lastOp.pops
    ELSE NoPops

PopsAfter(x, y) ==
    IF Hits(balloons, x, y) = {}
    THEN NoPops
    ELSE [PopsSoFar EXCEPT
            !.types = Append(@, balloons[hitIndex(balloons, x, y)].type)]

Call(op) == [op |-> op, ran |-> TRUE]

Init ==
    /\ state = [ running |-> FALSE, score |-> 0, highScore |-> 0,
                 lives |-> config.maxLives, level |-> 1, combo |-> 0,
                 gameStarted |-> FALSE, gameOver |-> FALSE ]
    /\ balloons = << >>
    /\ particles = << >>
    /\ activePowerUps = << >>
    /\ lastUpdateTime = 0
    /\ lastSpawnTime = 0
    /\ comboTimer = 0
    /\ comboCount = 0
    /\ now = 0
    /\ events = << >>
    /\ callbacks = << >>
    /\ lastOp = Call("new")
    /\ gameOverCalls = 0
    /\ clockSteps = 0
    /\ persistence = newPersistence
    \* useGameState after the first render: gameState.running is false, the
    \* render has seen false, nothing is due and no frame is requested.
    /\ driver =
         [ running  |-> FALSE,   \* gameState.running, with every queued update applied
           rendered |-> FALSE,   \* gameState.running as the last render saw it
           dirty    |-> FALSE,   \* a state update is queued: a render is due
           cleanup  |-> FALSE,   \* a render has committed: the engine effect's cleanup is due
           pending  |-> FALSE,   \* the frame of animationFrameRef.current has not fired
           loop     |-> FALSE ]  \* gameState.running in the closure of the requested gameLoop

\* The engine's fields after a call that leaves the engine as e.
CommitEngine(e) ==
    /\ state' = e.state
    /\ balloons' = e.balloons
    /\ particles' = e.particles
    /\ activePowerUps' = e.activePowerUps
    /\ lastUpdateTime' = e.lastUpdateTime
    /\ lastSpawnTime' = e.lastSpawnTime
    /\ comboTimer' = e.comboTimer
    /\ comboCount' = e.comboCount
    /\ events' = e.events
    /\ callbacks' = e.callbacks

\* A call made on the engine directly: the hooks are not involved.
Commit(e) ==
    /\ CommitEngine(e)
    /\ UNCHANGED << persistence, driver >>

\* How many onGameOver notifications a call emitted.
GameOvers(evs) == Cardinality({ i \in 1..Len(evs) : evs[i][1] = "onGameOver" })

StartGame(difficulties) ==
    /\ \E difficulty \in difficulties :
         /\ Commit(startGame(Engine, difficulty, now))
         /\ lastOp' = [op |-> "startGame", ran |-> TRUE, difficulty |-> difficulty]
    /\ gameOverCalls' = 0
    /\ UNCHANGED << now, clockSteps >>

PauseGame ==
    /\ Commit(pauseGame(Engine))
    /\ lastOp' = Call("pauseGame")
    /\ UNCHANGED << now, clockSteps, gameOverCalls >>

ResumeGame ==
    /\ Commit(resumeGame(Engine, now))
    /\ lastOp' = [op |-> "resumeGame", ran |-> TRUE, before |-> Before]
    /\ UNCHANGED << now, clockSteps, gameOverCalls >>

ResetGame ==
    /\ Commit(resetGame(Engine))
    /\ lastOp' = [op |-> "resetGame", ran |-> TRUE, before |-> Before]
    /\ gameOverCalls' = 0
    /\ UNCHANGED << now, clockSteps >>

SetHighScore ==
    /\ \E score \in HighScores : Commit(setHighScore(Engine, score))
    /\ lastOp' = Call("setHighScore")
    /\ UNCHANGED << now, clockSteps, gameOverCalls >>

\* The time between the engine's last anchor and the resumeGame that has
\* just been called; 0 when the call made last is not a resumeGame.
PausedFor ==
    IF lastOp.op = "resumeGame" THEN now - lastOp.before.lastUpdateTime ELSE 0

\* One frame: the clock has advanced by d since the frame before, and the
\* driver calls update with the clock's reading, whatever the phase.
Update(deltas, rands, maxSteps) ==
    /\ clockSteps < maxSteps
    /\ \E d \in deltas, rnd \in rands :
         LET e == update(Engine, now + d, rnd, now + d)
         IN  /\ gameOverCalls + GameOvers(e.events) <= MaxGameOverCalls
             /\ Commit(e)
             /\ gameOverCalls' = gameOverCalls + GameOvers(e.events)
             /\ now' = now + d
             /\ lastOp' = IF state.running
                          THEN [op |-> "update", ran |-> TRUE, before |-> Before,
                                elapsed |-> d, pausedFor |-> PausedFor]
                          ELSE [op |-> "update", ran |-> FALSE]
    /\ clockSteps' = clockSteps + 1

\* One tap at the point p.
HandleInput ==
    /\ \E p \in TapPoints :
         /\ Commit(handleInput(Engine, p[1], p[2]))
         /\ lastOp' = IF state.running
                      THEN [op |-> "handleInput", ran |-> TRUE, x |-> p[1],
                            y |-> p[2], before |-> Before,
                            pops |-> PopsAfter(p[1], p[2])]
                      ELSE [op |-> "handleInput", ran |-> FALSE]
    /\ UNCHANGED << now, clockSteps, gameOverCalls >>

Next ==
    \/ StartGame(Difficulties)
    \/ PauseGame
    \/ ResumeGame
    \/ ResetGame
    \/ Update(Deltas, Rands, MaxClockSteps)
    \/ HandleInput
    \/ SetHighScore

Spec == Init /\ [][Next]_vars

\* Longer runs with bombs and slow balloons only.
NextBombs ==
    \/ StartGame({"easy"})
    \/ PauseGame
    \/ ResumeGame
    \/ ResetGame
    \/ Update(Deltas, BombRands, MaxBombSteps)
    \/ HandleInput

SpecBombs == Init /\ [][NextBombs]_vars

\* A normal balloon.
NormalRands == { Rand(999, 0) }

\* A frame, or a wait longer than a balloon's lifespan.
LongDeltas == { 700, 50100 }

\* Normal balloons only, with waits longer than a lifespan.
NextNormals ==
    \/ StartGame({"easy"})
    \/ PauseGame
    \/ ResumeGame
    \/ ResetGame
    \/ Update(LongDeltas, NormalRands, MaxNormalSteps)
    \/ HandleInput

SpecNormals == Init /\ [][NextNormals]_vars

\* A bomb or a heart.
HeartRands == { Rand(0, 0), Rand(50, 715) }

\* Bombs and hearts only.
NextHearts ==
    \/ StartGame({"easy"})
    \/ PauseGame
    \/ ResumeGame
    \/ ResetGame
    \/ Update(Deltas, HeartRands, MaxBombSteps)
    \/ HandleInput

SpecHearts == Init /\ [][NextHearts]_vars

\* A bomb, a heart or a normal balloon.
CullRands == { Rand(0, 0), Rand(50, 715), Rand(999, 0) }

\* Bombs, hearts and normal balloons, with waits longer than a lifespan.
NextCull ==
    \/ StartGame({"easy"})
    \/ PauseGame
    \/ ResumeGame
    \/ ResetGame
    \/ Update(LongDeltas, CullRands, MaxCullSteps)
    \/ HandleInput

SpecCull == Init /\ [][NextCull]_vars

\* A slow, a freeze or a magnet balloon.
EffectRands == { Rand(50, 0), Rand(50, 286), Rand(50, 429) }

\* A frame, or a wait as long as a power-up lasts.
EffectDeltas == { 700, 10000 }

\* The balloons whose effects bear on the movement, in a game played on.
NextEffects ==
    \/ StartGame({"easy"})
    \/ Update(EffectDeltas, EffectRands, MaxEffectSteps)
    \/ HandleInput

SpecEffects == Init /\ [][NextEffects]_vars

\* A bomb, a multiplier or a defuser balloon.
DefuserRands == { Rand(0, 0), Rand(50, 143), Rand(50, 572) }

\* Bombs, multiplier and defuser balloons, in a game played on.
NextDefuser ==
    \/ StartGame({"easy"})
    \/ Update(Deltas, DefuserRands, MaxDefuserSteps)
    \/ HandleInput

SpecDefuser == Init /\ [][NextDefuser]_vars

\* A bomb or a multiplier balloon.
HighScoreRands == { Rand(0, 0), Rand(50, 143) }

\* Every operation that could bear on highScore, in a game of bombs and
\* multiplier balloons long enough to end with a score.
NextHighScore ==
    \/ StartGame({"easy"})
    \/ PauseGame
    \/ ResumeGame
    \/ ResetGame
    \/ Update(Deltas, HighScoreRands, MaxHighScoreSteps)
    \/ HandleInput
    \/ SetHighScore

SpecHighScore == Init /\ [][NextHighScore]_vars

---------------------------------------------------------------------------
(* A reader outside the engine that writes to what the getters return.  A  *)
(* write to a new object or array stays with the reader; a write to an     *)
(* object the engine holds too is a write to the engine's object.          *)

Reader(getter) == [op |-> "reader", ran |-> TRUE, getter |-> getter]

\* snapshot = getState(); snapshot.score = 999
ReaderWritesState ==
    /\ LET snapshot == [getState(Engine) EXCEPT !.score = 999]
       IN  Commit(Engine)
    /\ lastOp' = Reader("getState")
    /\ UNCHANGED << now, clockSteps, gameOverCalls >>

\* list = getBalloons(); list.length = 0
ReaderEmptiesList ==
    /\ LET list == SubSeq(getBalloons(Engine), 1, 0)
       IN  Commit(Engine)
    /\ lastOp' = Reader("getBalloons")
    /\ UNCHANGED << now, clockSteps, gameOverCalls >>

\* getBalloons()[i].x = 0
ReaderMovesBalloon ==
    /\ \E i \in 1..Len(getBalloons(Engine)) :
         Commit([Engine EXCEPT !.balloons[i].x = 0])
    /\ lastOp' = Reader("getBalloons")
    /\ UNCHANGED << now, clockSteps, gameOverCalls >>

\* getPowerUpManager().activatePowerUp('defuser', 10)
ReaderActivates ==
    /\ Commit(WithRegistry(Engine,
           activatePowerUp(getPowerUpManager(Engine), "defuser",
                           config.powerupDuration)))
    /\ lastOp' = Reader("getPowerUpManager")
    /\ UNCHANGED << now, clockSteps, gameOverCalls >>

\* getParticleSystem().clear()
ReaderClearsParticles ==
    /\ Commit([Engine EXCEPT !.particles = SubSeq(getParticleSystem(Engine), 1, 0)])
    /\ lastOp' = Reader("getParticleSystem")
    /\ UNCHANGED << now, clockSteps, gameOverCalls >>

NextReaders ==
    \/ StartGame({"easy"})
    \/ Update(Deltas, BombRands, MaxClockSteps)
    \/ HandleInput
    \/ ReaderWritesState
    \/ ReaderEmptiesList
    \/ ReaderMovesBalloon
    \/ ReaderActivates
    \/ ReaderClearsParticles

SpecReaders == Init /\ [][NextReaders]_vars

---------------------------------------------------------------------------
(* Balloon.create on its own, over canvas sizes, tunings and random draws. *)

CreateBalloon ==
    /\ \E size \in CanvasSizes, difficulty \in Difficulties, rnd \in RandGrid :
         /\ balloons' = << create(size.width, size.height,
                                  config.baseSpeed[difficulty],
                                  config.bombChance[difficulty],
                                  config.powerupChance[difficulty], rnd, now) >>
         /\ lastOp' = [op |-> "Balloon.create", size |-> size, rnd |-> rnd,
                       difficulty |-> difficulty]
    /\ UNCHANGED << state, particles, activePowerUps, lastUpdateTime,
                    lastSpawnTime, comboTimer, comboCount, events, callbacks,
                    gameOverCalls, now, clockSteps, persistence, driver >>

NextCreate == CreateBalloon

SpecCreate == Init /\ [][NextCreate]_vars

---------------------------------------------------------------------------
(* The persistence on its own: any sequence of the hook's calls.           *)

AllEngineVars ==
    << state, balloons, particles, activePowerUps, lastUpdateTime,
       lastSpawnTime, comboTimer, comboCount, events, callbacks,
       gameOverCalls, now, clockSteps, driver >>

InitializeFirebase ==
    /\ \E p \in Initialized(persistence) : persistence' = p
    /\ lastOp' = [op |-> "initializeFirebase", before |-> persistence]
    /\ UNCHANGED AllEngineVars

SaveScore ==
    /\ \E score \in Scores, env \in SaveEnvs :
         LET r == saveScore(persistence, score, env)
         IN  /\ persistence' = r.persistence
             /\ lastOp' = [op |-> "saveScore", score |-> score, env |-> env,
                           before |-> persistence, result |-> r]
    /\ UNCHANGED AllEngineVars

FetchHighScore ==
    /\ \E env \in FetchEnvs :
         LET r == fetchHighScore(persistence, env)
         IN  /\ persistence' = r.persistence
             /\ lastOp' = [op |-> "fetchHighScore", env |-> env,
                           before |-> persistence, result |-> r]
    /\ UNCHANGED AllEngineVars

NextPersistence ==
    \/ InitializeFirebase
    \/ SaveScore
    \/ FetchHighScore

SpecPersistence == Init /\ [][NextPersistence]_vars

---------------------------------------------------------------------------
(* The frame driver of useGameState.  The callbacks are memoised closures: *)
(* gameLoop is rebuilt when gameState.running changes and reads the value  *)
(* of the render that built it; startGame and resumeGame request a frame   *)
(* for the gameLoop of the last render.  gameEvents is a new object in     *)
(* every render, so the engine effect's dependencies change with every     *)
(* render and its cleanup runs after every commit.  Each setGameState      *)
(* leaves a render due (dirty).                                            *)

\* The start modal, the only caller, is up only while the engine is idle:
\* at first and after restartGame, which cancels the frame.
HookStartGame ==
    /\ ~state.gameStarted
    /\ CommitEngine(startGame(Engine, "easy", now))
    \* requestAnimationFrame(gameLoop), the gameLoop of the last render
    /\ driver' = [driver EXCEPT !.running = TRUE, !.dirty = TRUE,
                                !.pending = TRUE, !.loop = driver.rendered]
    /\ lastOp' = [op |-> "startGame", ran |-> TRUE, difficulty |-> "easy"]
    /\ gameOverCalls' = 0
    /\ UNCHANGED << now, clockSteps, persistence >>

HookPauseGame ==
    /\ CommitEngine(pauseGame(Engine))
    \* cancelAnimationFrame(animationFrameRef.current)
    /\ driver' = [driver EXCEPT !.running = FALSE, !.dirty = TRUE,
                                !.pending = FALSE]
    /\ lastOp' = Call("pauseGame")
    /\ UNCHANGED << now, clockSteps, gameOverCalls, persistence >>

\* Called when no frame is requested.
HookResumeGame ==
    /\ ~driver.pending
    /\ CommitEngine(resumeGame(Engine, now))
    \* requestAnimationFrame(gameLoop), the gameLoop of the last render
    /\ driver' = [driver EXCEPT !.running = TRUE, !.dirty = TRUE,
                                !.pending = TRUE, !.loop = driver.rendered]
    /\ lastOp' = [op |-> "resumeGame", ran |-> TRUE, before |-> Before]
    /\ UNCHANGED << now, clockSteps, gameOverCalls, persistence >>

HookRestartGame ==
    /\ CommitEngine(resetGame(Engine))
    \* cancelAnimationFrame(animationFrameRef.current)
    /\ driver' = [driver EXCEPT !.running = FALSE, !.dirty = TRUE,
                                !.pending = FALSE]
    /\ lastOp' = [op |-> "resetGame", ran |-> TRUE, before |-> Before]
    /\ gameOverCalls' = 0
    /\ UNCHANGED << now, clockSteps, persistence >>

\* A tap reaches the engine when the last render saw gameState.running.
HookHandleInput ==
    /\ driver.rendered
    /\ \E p \in TapPoints :
         LET e == handleInput(Engine, p[1], p[2])
         IN  /\ CommitEngine(e)
             /\ driver' = IF \E i \in 1..Len(e.events) : e.events[i][1] = "onScoreUpdate"
                          THEN [driver EXCEPT !.dirty = TRUE]
                          ELSE driver
             /\ lastOp' = IF state.running
                          THEN [op |-> "handleInput", ran |-> TRUE, x |-> p[1],
                                y |-> p[2], before |-> Before,
                                pops |-> PopsAfter(p[1], p[2])]
                          ELSE [op |-> "handleInput", ran |-> FALSE]
    /\ UNCHANGED << now, clockSteps, gameOverCalls, persistence >>

\* React renders: the callbacks are rebuilt over the current state, and the
\* engine effect, whose dependencies have changed, is queued again.
Render ==
    /\ driver.dirty
    /\ driver' = [driver EXCEPT !.rendered = driver.running, !.dirty = FALSE,
                                !.cleanup = TRUE]
    /\ UNCHANGED << state, balloons, particles, activePowerUps, lastUpdateTime,
                    lastSpawnTime, comboTimer, comboCount, events, callbacks,
                    gameOverCalls, now, clockSteps, lastOp, persistence >>

\* The cleanup of the engine effect of the render before: it cancels the
\* frame of animationFrameRef.current.
EffectCleanup ==
    /\ driver.cleanup
    /\ driver' = [driver EXCEPT !.cleanup = FALSE, !.pending = FALSE]
    /\ UNCHANGED << state, balloons, particles, activePowerUps, lastUpdateTime,
                    lastSpawnTime, comboTimer, comboCount, events, callbacks,
                    gameOverCalls, now, clockSteps, lastOp, persistence >>

\* The requested frame fires: gameLoop calls update with the frame's
\* timestamp, copies the engine's state into gameState, and requests the
\* next frame when the gameState.running of its closure is true.
Frame ==
    /\ driver.pending
    /\ clockSteps < MaxDriverSteps
    /\ \E d \in Deltas, rnd \in NormalRands :
         LET e == update(Engine, now + d, rnd, now + d)
         IN  /\ gameOverCalls + GameOvers(e.events) <= MaxGameOverCalls
             /\ CommitEngine(e)
             /\ gameOverCalls' = gameOverCalls + GameOvers(e.events)
             /\ now' = now + d
             /\ lastOp' = IF state.running
                          THEN [op |-> "update", ran |-> TRUE, before |-> Before,
                                elapsed |-> d, pausedFor |-> PausedFor]
                          ELSE [op |-> "update", ran |-> FALSE]
             /\ driver' = [driver EXCEPT !.running = e.state.running,
                                         !.dirty = TRUE,
                                         !.pending = driver.loop]
    /\ clockSteps' = clockSteps + 1
    /\ UNCHANGED persistence

NextDriver ==
    \/ HookStartGame
    \/ HookPauseGame
    \/ HookResumeGame
    \/ HookRestartGame
    \/ HookHandleInput
    \/ Render
    \/ EffectCleanup
    \/ Frame

SpecDriver == Init /\ [][NextDriver]_vars

\* A Frame step seen from the frame counter: it is possible when a frame
\* is requested, and the steps that count a frame are the Frame steps.
FrameFires ==
    /\ driver.pending
    /\ clockSteps < MaxDriverSteps
    /\ clockSteps' = clockSteps + 1

\* The browser fires a requested frame, React renders after a state update
\* and runs the effects of a committed render.
FairDriver ==
    /\ SpecDriver
    /\ WF_clockSteps(FrameFires)
    /\ WF_vars(Render)
    /\ WF_vars(EffectCleanup)

---------------------------------------------------------------------------
(* The registry on its own: any sequence of the PowerUpManager's calls.    *)

EngineVars ==
    << state, balloons, particles, lastUpdateTime, lastSpawnTime, comboTimer,
       comboCount, events, gameOverCalls >>

\* The registry's fields after a call that leaves the registry as reg.
CommitRegistry(reg) ==
    /\ activePowerUps' = reg.activePowerUps
    /\ callbacks' = reg.callbacks
    /\ UNCHANGED << persistence, driver >>

NewRegistry == [activePowerUps |-> activePowerUps, callbacks |-> << >>]

RegistryActivate ==
    /\ \E type \in RegistryTypes, duration \in RegistryDurations :
         /\ CommitRegistry(activatePowerUp(NewRegistry, type, duration))
         /\ lastOp' = [op |-> "PowerUpManager.activatePowerUp", type |-> type,
                       duration |-> duration, before |-> activePowerUps]
    /\ UNCHANGED << EngineVars, now, clockSteps >>

RegistryDeactivate ==
    /\ \E type \in RegistryTypes :
         /\ CommitRegistry(deactivatePowerUp(NewRegistry, type))
         /\ lastOp' = [op |-> "PowerUpManager.deactivatePowerUp", type |-> type,
                       before |-> activePowerUps]
    /\ UNCHANGED << EngineVars, now, clockSteps >>

RegistryUpdate ==
    /\ clockSteps < MaxRegistrySteps
    /\ \E d \in RegistryDeltas :
         /\ CommitRegistry(powerUpUpdate(NewRegistry, d))
         /\ lastOp' = [op |-> "PowerUpManager.update", deltaTime |-> d,
                       before |-> activePowerUps]
         /\ now' = now + d
    /\ clockSteps' = clockSteps + 1
    /\ UNCHANGED EngineVars

RegistryClearAll ==
    /\ CommitRegistry(clearAll(NewRegistry))
    /\ lastOp' = [op |-> "PowerUpManager.clearAll", before |-> activePowerUps]
    /\ UNCHANGED << EngineVars, now, clockSteps >>

NextRegistry ==
    \/ RegistryActivate
    \/ RegistryDeactivate
    \/ RegistryUpdate
    \/ RegistryClearAll

SpecRegistry == Init /\ [][NextRegistry]_vars

---------------------------------------------------------------------------
(* Properties *)

\* The last call was a handleInput that ran.
Tapped == lastOp.op = "handleInput" /\ lastOp.ran

\* The balloons that contained the tapped point when the call started.
TapHits == Hits(lastOp.before.balloons, lastOp.x, lastOp.y)

\* The tap hit a balloon of this type: the newest balloon under the point.
TappedType(type) ==
    /\ Tapped
    /\ TapHits # {}
    /\ lastOp.before.balloons[hitIndex(lastOp.before.balloons, lastOp.x, lastOp.y)].type = type

\* C1: update and handleInput called while the engine is not running change
\* nothing (state, clocks, combo, balloons, particles, power-ups) and emit no
\* notification.
NotRunningIsNoOp ==
    [][ (lastOp'.op \in {"update", "handleInput"} /\ ~state.running) =>
          /\ state' = state
          /\ balloons' = balloons
          /\ particles' = particles
          /\ activePowerUps' = activePowerUps
          /\ lastUpdateTime' = lastUpdateTime
          /\ lastSpawnTime' = lastSpawnTime
          /\ comboTimer' = comboTimer
          /\ comboCount' = comboCount
          /\ events' = << >>
          /\ callbacks' = << >> ]_vars

\* A tap while paused with a balloon on screen.
NotRunningWitness ==
    /\ lastOp.op = "handleInput"
    /\ ~lastOp.ran
    /\ state.gameStarted
    /\ ~state.gameOver
    /\ Len(balloons) > 0

\* C2: lives stays between 0 and maxLives.
LivesWithinBounds ==
    /\ 0 <= state.lives
    /\ state.lives <= config.maxLives

\* C3: an update that ran and returns with lives <= 0 leaves the engine
\* ended, with no power-up active, having emitted onGameOver exactly once,
\* with the score.
UpdateEndsGame ==
    (lastOp.op = "update" /\ lastOp.ran /\ state.lives <= 0) =>
        /\ ~state.running
        /\ state.gameOver
        /\ \A i \in 1..Len(PowerUpTypes) : ~isActive(activePowerUps, PowerUpTypes[i])
        /\ ~hasAnyActive(activePowerUps)
        /\ GameOvers(events) = 1
        /\ \E i \in 1..Len(events) :
             events[i][1] = "onGameOver" /\ events[i][2] = state.score

\* An update that ended the game while a power-up was active.
UpdateEndsGameWitness ==
    /\ lastOp.op = "update"
    /\ lastOp.ran
    /\ state.lives <= 0
    /\ lastOp.before.activePowerUps # << >>
    /\ state.gameOver

\* C4: onGameOver is invoked at most once in a session.
GameOverAtMostOnce == gameOverCalls <= 1

IdlePhase == ~state.gameStarted /\ ~state.running /\ ~state.gameOver

RunningPhase == state.gameStarted /\ state.running /\ ~state.gameOver

PausedPhase == state.gameStarted /\ ~state.running /\ ~state.gameOver

EndedPhase == state.gameOver /\ ~state.running

\* C5: the engine is always in one of the four phases idle, running, paused,
\* ended.
FourPhases == IdlePhase \/ RunningPhase \/ PausedPhase \/ EndedPhase

\* C6: score is never negative, update and handleInput never decrease it,
\* and a step that lowers it is a resetGame or a startGame setting it to 0.
ScoreNeverDecreases ==
    [][ /\ state'.score >= 0
        /\ (lastOp'.op \in {"update", "handleInput"} => state'.score >= state.score)
        /\ (state'.score < state.score =>
               lastOp'.op \in {"resetGame", "startGame"} /\ state'.score = 0) ]_vars

\* A bomb popped without defuser when the score was positive.
ScoreKeptWitness ==
    /\ TappedType("bomb")
    /\ ~isActive(lastOp.before.activePowerUps, "defuser")
    /\ lastOp.before.score > 0
    /\ state.score = lastOp.before.score

\* The entries of a registry map for a type.
EntriesOf(m, type) == { i \in 1..Len(m) : m[i].type = type }

\* The last call activated a type that was active.
Reactivated ==
    /\ lastOp.op = "PowerUpManager.activatePowerUp"
    /\ MapHas(lastOp.before, lastOp.type)

\* C7: the registry never holds two entries of a type, and activating an
\* active type leaves one entry with the full new duration, after one
\* onDeactivate for the old entry and then one onActivate for the new one.
ReactivateReplaces ==
    /\ \A i \in 1..Len(PowerUpTypes) :
         Cardinality(EntriesOf(activePowerUps, PowerUpTypes[i])) <= 1
    /\ Reactivated =>
         /\ Cardinality(EntriesOf(activePowerUps, lastOp.type)) = 1
         /\ LET new == MapGet(activePowerUps, lastOp.type)
                old == MapGet(lastOp.before, lastOp.type)
            IN  /\ new.timeLeft = lastOp.duration
                /\ new.duration = lastOp.duration
                /\ new.active
                /\ Len(callbacks) = 2
                /\ callbacks[1].cb = "onDeactivate"
                /\ callbacks[1].powerUp.type = lastOp.type
                /\ callbacks[1].powerUp.duration = old.duration
                /\ ~callbacks[1].powerUp.active
                /\ callbacks[2] = Notify("onActivate", new)

\* A type re-activated with another duration while part of its time was
\* used and another type was active too.
ReactivateWitness ==
    /\ Reactivated
    /\ LET old == MapGet(lastOp.before, lastOp.type)
       IN  /\ old.timeLeft < old.duration
           /\ old.duration # lastOp.duration
    /\ Len(activePowerUps) >= 2

\* C8: a bomb popped while defuser is active leaves lives unchanged; a bomb
\* popped while it is not costs exactly one life and adds nothing to score.
BombPop ==
    TappedType("bomb") =>
        IF isActive(lastOp.before.activePowerUps, "defuser")
        THEN state.lives = lastOp.before.lives
        ELSE /\ state.lives = lastOp.before.lives - 1
             /\ state.score = lastOp.before.score

\* A bomb popped while defuser is active.
BombPopWitness ==
    /\ TappedType("bomb")
    /\ isActive(lastOp.before.activePowerUps, "defuser")

\* C9: a heart pop sets lives to min(lives + 1, maxLives) and leaves score,
\* combo count and combo timer unchanged.
HeartPop ==
    TappedType("heart") =>
        /\ state.lives = IF lastOp.before.lives + 1 <= config.maxLives
                         THEN lastOp.before.lives + 1
                         ELSE config.maxLives
        /\ state.score = lastOp.before.score
        /\ comboCount = lastOp.before.comboCount
        /\ comboTimer = lastOp.before.comboTimer

\* A heart popped after a life was lost.
HeartPopWitness ==
    /\ TappedType("heart")
    /\ lastOp.before.lives < config.maxLives
    /\ state.lives = lastOp.before.lives + 1

\* C10: a tap that lies inside no balloon sets the combo count and the combo
\* timer to 0 and changes neither score, lives nor the balloons.
MissResetsCombo ==
    (Tapped /\ TapHits = {}) =>
        /\ comboCount = 0
        /\ comboTimer = 0
        /\ state.score = lastOp.before.score
        /\ state.lives = lastOp.before.lives
        /\ balloons = lastOp.before.balloons

\* A miss that ends a streak while a balloon is on screen.
MissWitness ==
    /\ Tapped
    /\ TapHits = {}
    /\ lastOp.before.comboCount >= 1
    /\ lastOp.before.comboTimer > 0
    /\ lastOp.before.balloons # << >>

\* The last call was an update that ran.
Updated == lastOp.op = "update" /\ lastOp.ran

\* What is left of the combo countdown after the last update's deltaTime.
CountdownLeft ==
    lastOp.before.comboTimer - (lastUpdateTime - lastOp.before.lastUpdateTime)

\* C11: a pop that increments the combo sets the countdown to comboTimeout;
\* a positive count has a positive countdown; an update that finds a
\* positive count takes its deltaTime off the countdown, leaves the count at
\* 0 when the countdown reaches or crosses zero, and otherwise leaves the
\* count unchanged unless a life is lost in that update, which resets it.
ComboCountdown ==
    /\ comboCount > 0 => (0 < comboTimer /\ comboTimer <= config.comboTimeout)
    /\ (Tapped /\ comboCount > lastOp.before.comboCount) =>
          comboTimer = config.comboTimeout
    /\ (Updated /\ lastOp.before.comboCount > 0) =>
          IF CountdownLeft <= 0
          THEN comboCount = 0
          ELSE IF state.lives = lastOp.before.lives
               THEN /\ comboCount = lastOp.before.comboCount
                    /\ comboTimer = CountdownLeft
               ELSE comboCount = 0

\* C11 as stated: in a session begun by startGame, an update that finds a
\* positive count leaves it at 0 when the countdown reaches or crosses zero
\* and unchanged before that.
ComboUnchangedBeforeTimeout ==
    (/\ Updated
     /\ lastOp.before.state.gameStarted
     /\ ~lastOp.before.state.gameOver
     /\ lastOp.before.comboCount > 0) =>
        IF CountdownLeft <= 0
        THEN comboCount = 0
        ELSE comboCount = lastOp.before.comboCount

\* An update without a life lost whose deltaTime uses up the countdown of a
\* positive count.
ComboTimeoutWitness ==
    /\ Updated
    /\ lastOp.before.comboCount > 0
    /\ CountdownLeft <= 0
    /\ state.lives = lastOp.before.lives
    /\ comboCount = 0

\* The notifications of one kind among the last call's.
EventsOf(kind) == SelectSeq(events, LAMBDA ev : ev[1] = kind)

\* The last calls were consecutive taps that each popped a normal balloon,
\* the first finding combo 0 and no multiplier.
NormalSeries ==
    /\ Tapped
    /\ lastOp.pops.types # << >>
    /\ \A i \in 1..Len(lastOp.pops.types) : lastOp.pops.types[i] = "normal"
    /\ lastOp.pops.comboCount = 0
    /\ ~isActive(lastOp.pops.activePowerUps, "multiplier")

\* 2 + 3 + ... + k
BonusSteps(k) == (k * (k + 1)) \div 2 - 1

\* C12: k consecutive pops of normal balloons from combo 0 without
\* multiplier add k + 10 * (2 + ... + k) to score and leave the combo count
\* at k; a pop that increments the count to n notifies a combo, and scores
\* a second time, exactly when n > 1.
ComboSeries ==
    /\ NormalSeries =>
          LET k == Len(lastOp.pops.types)
          IN  /\ state.score = lastOp.pops.score + k + 10 * BonusSteps(k)
              /\ comboCount = k
    /\ (Tapped /\ comboCount > lastOp.before.comboCount) =>
          /\ comboCount = lastOp.before.comboCount + 1
          /\ EventsOf("onCombo") =
                IF comboCount > 1 THEN << << "onCombo", comboCount >> >> ELSE << >>
          /\ Len(EventsOf("onScoreUpdate")) = IF comboCount > 1 THEN 2 ELSE 1

\* Five normal balloons popped in a row: 145 points, combo 5.
ComboSeriesWitness ==
    /\ NormalSeries
    /\ Len(lastOp.pops.types) = 5
    /\ state.score = lastOp.pops.score + 145
    /\ comboCount = 5

\* The type of the balloon the last tap hit.
TapTarget ==
    lastOp.before.balloons[hitIndex(lastOp.before.balloons, lastOp.x, lastOp.y)].type

\* The sum of the first n numbers of a sequence.
RECURSIVE SumTo(_, _)
SumTo(seq, n) == IF n = 0 THEN 0 ELSE SumTo(seq, n - 1) + seq[n]

\* The unmultiplied amounts a pop adds to score, in order: the base value of
\* the pop, then the combo bonus when the count has become n > 1.
RawAdditions(type, defused, n) ==
    LET bonus == IF n > 1 THEN << 10 * n >> ELSE << >>
    IN  CASE type = "normal"  -> << 1 >> \o bonus
          [] type = "special" -> << 5 >> \o bonus
          [] type = "heart"   -> << >>
          [] type = "bomb"    -> IF defused THEN << 1 >> ELSE << >>
          [] OTHER            -> << 10 >> \o bonus

\* C13: each amount a pop adds to score is multiplied by 2 when the
\* multiplier effect is active at that moment (it is from the activation on
\* when the pop is that of a multiplier balloon) and by 1 otherwise, and
\* each score notification carries the new score and that multiplier.
ScoreAdditions ==
    (Tapped /\ TapHits # {}) =>
        LET multiplier ==
                IF \/ isActive(lastOp.before.activePowerUps, "multiplier")
                   \/ TapTarget = "multiplier"
                THEN 2 ELSE 1
            raw == RawAdditions(TapTarget,
                                isActive(lastOp.before.activePowerUps, "defuser"),
                                comboCount)
            updates == EventsOf("onScoreUpdate")
        IN  /\ Len(updates) = Len(raw)
            /\ \A i \in 1..Len(raw) :
                  /\ updates[i][3] = multiplier
                  /\ updates[i][2] = lastOp.before.score + multiplier * SumTo(raw, i)
            /\ state.score = lastOp.before.score + multiplier * SumTo(raw, Len(raw))

\* A normal balloon popped as the second of a streak while the multiplier
\* is active: 2 * 1 + 2 * 20.
ScoreAdditionsWitness ==
    /\ TappedType("normal")
    /\ isActive(lastOp.before.activePowerUps, "multiplier")
    /\ comboCount = 2
    /\ state.score = lastOp.before.score + 42

\* C14: resetGame, whatever it finds, leaves score 0, lives maxLives, combo
\* count and timer 0, no balloon, no particle, no active power-up, and the
\* three phase flags false; highScore keeps its value.
ResetRestores ==
    lastOp.op = "resetGame" =>
        /\ state = [ running |-> FALSE, score |-> 0,
                     highScore |-> lastOp.before.state.highScore,
                     lives |-> config.maxLives, level |-> 1, combo |-> 0,
                     gameStarted |-> FALSE, gameOver |-> FALSE ]
        /\ comboCount = 0
        /\ comboTimer = 0
        /\ balloons = << >>
        /\ particles = << >>
        /\ activePowerUps = << >>

\* A reset in the middle of a game with points, a streak, a balloon,
\* particles, an active power-up and a high score.
ResetWitness ==
    /\ lastOp.op = "resetGame"
    /\ lastOp.before.state.running
    /\ lastOp.before.score > 0
    /\ lastOp.before.comboCount > 0
    /\ lastOp.before.balloons # << >>
    /\ lastOp.before.particles # << >>
    /\ lastOp.before.activePowerUps # << >>
    /\ lastOp.before.state.highScore > 0

\* The last calls were consecutive taps that each popped a bomb, the first
\* finding 3 lives and no defuser.
BombSeries ==
    /\ Tapped
    /\ lastOp.pops.types # << >>
    /\ \A i \in 1..Len(lastOp.pops.types) : lastOp.pops.types[i] = "bomb"
    /\ lastOp.pops.lives = 3
    /\ ~isActive(lastOp.pops.activePowerUps, "defuser")

\* C15: from 3 lives without defuser, consecutive bomb pops leave 2, 1 and
\* 0 lives; a handleInput call changes none of the phase flags, so the
\* engine is running after the third pop; the update that finds 0 lives
\* ends the game.
ThreeBombs ==
    /\ (BombSeries /\ Len(lastOp.pops.types) <= 3) =>
          state.lives = 3 - Len(lastOp.pops.types)
    /\ Tapped =>
          /\ state.running
          /\ state.gameStarted = lastOp.before.state.gameStarted
          /\ state.gameOver = lastOp.before.state.gameOver
    /\ (Updated /\ lastOp.before.lives = 0) =>
          /\ ~state.running
          /\ state.gameOver

\* The third bomb of a game begun by startGame is popped: 0 lives, running.
ThreeBombsWitness ==
    /\ BombSeries
    /\ Len(lastOp.pops.types) = 3
    /\ state.lives = 0
    /\ state.running
    /\ state.gameStarted
    /\ ~state.gameOver

\* The balloon Balloon.create gives with the tuning of a difficulty.
CreatedFor(difficulty, rnd, clock) ==
    create(dimensions.width, dimensions.height, config.baseSpeed[difficulty],
           config.bombChance[difficulty], config.powerupChance[difficulty],
           rnd, clock)

\* C16: the first update after startGame(d) spawns exactly when more than
\* d's spawn interval has passed, and the balloon it spawns has the speed
\* and the type that d's base speed, bomb probability and power-up
\* probability give for the random numbers drawn.
DifficultyApplied ==
    [][ (lastOp.op = "startGame" /\ lastOp'.op = "update" /\ lastOp'.ran) =>
          /\ (Len(balloons') = 1) <=>
                (now' - lastSpawnTime > config.spawnRate[lastOp.difficulty])
          /\ Len(balloons') = 1 =>
                \E rnd \in Rands :
                    /\ balloons'[1].speed =
                          CreatedFor(lastOp.difficulty, rnd, now').speed
                    /\ balloons'[1].type =
                          CreatedFor(lastOp.difficulty, rnd, now').type ]_vars

\* C17: a reader's write to anything a getter returned changes neither
\* score, lives, the balloons nor the active power-ups.
ReadersCannotChange ==
    [][ lastOp'.op = "reader" =>
          /\ state' = state
          /\ balloons' = balloons
          /\ activePowerUps' = activePowerUps ]_vars

\* C18: saveScore never raises and returns a boolean, false when the hook
\* is not initialised, when the remote write fails and when the local write
\* throws, and after a failed remote write the score is in local storage if
\* the local write went through; fetchHighScore never raises and returns a
\* non-negative number.
SaveScoreNeverRaises ==
    /\ lastOp.op = "saveScore" =>
          LET before == lastOp.before
              remote == before.db /\ before.currentUser = "uid"
              remoteFailed == remote /\ lastOp.env.setDoc = "fails"
              localFailed == (~remote \/ remoteFailed) /\ lastOp.env.setItem = "throws"
          IN  /\ ~lastOp.result.raised
              /\ lastOp.result.value \in BOOLEAN
              /\ ~before.initialized => ~lastOp.result.value
              /\ (before.initialized /\ (remoteFailed \/ localFailed)) =>
                    ~lastOp.result.value
              /\ (before.initialized /\ remoteFailed /\ ~localFailed) =>
                    /\ persistence.localStorage = toString(lastOp.score)
                    /\ parseInt(persistence.localStorage) = lastOp.score
    /\ lastOp.op = "fetchHighScore" =>
          /\ ~lastOp.result.raised
          /\ lastOp.result.value \in Nat

\* A save whose remote write fails and whose score lands in local storage.
SaveScoreWitness ==
    /\ lastOp.op = "saveScore"
    /\ lastOp.before.initialized
    /\ lastOp.before.db
    /\ lastOp.before.currentUser = "uid"
    /\ lastOp.env.setDoc = "fails"
    /\ lastOp.env.setItem = "ok"
    /\ lastOp.score = 145
    /\ lastOp.before.localStorage # toString(145)
    /\ ~lastOp.result.value
    /\ persistence.localStorage = toString(145)

\* C19: the table has exactly one entry for each of the nine categories,
\* with the category's own name, a point value and a description; every
\* balloon the engine holds has one of these categories, and every pop
\* notification carries the category's point value from the table.
LookupTotal ==
    /\ DOMAIN BALLOON_TYPES = BalloonTypeNames
    /\ Cardinality(BalloonTypeNames) = 9
    /\ \A type \in BalloonTypeNames :
          /\ BALLOON_TYPES[type].type = type
          /\ BALLOON_TYPES[type].points \in Int
          /\ BALLOON_TYPES[type].description # ""
    /\ \A i \in 1..Len(balloons) : balloons[i].type \in DOMAIN BALLOON_TYPES
    /\ \A i \in 1..Len(EventsOf("onBalloonPop")) :
          LET pop == EventsOf("onBalloonPop")[i]
          IN  /\ pop[2] \in DOMAIN BALLOON_TYPES
              /\ pop[3] = BALLOON_TYPES[pop[2]].points

\* A bomb popped: the notification carries -1.
LookupWitness ==
    /\ TappedType("bomb")
    /\ EventsOf("onBalloonPop") = << << "onBalloonPop", "bomb", -1 >> >>

\* C20: a balloon from Balloon.create has a radius from 25 to 45 px, a
\* positive speed, its centre between r and width - r across the canvas and
\* at height + r.
SpawnBounds ==
    lastOp.op = "Balloon.create" =>
        LET b == balloons[1]
        IN  /\ 250 <= b.r
            /\ b.r <= 450
            /\ b.speed > 0
            /\ b.r <= b.x
            /\ b.x <= lastOp.size.width - b.r
            /\ b.y = lastOp.size.height + b.r

\* The largest radius, the rightmost place and the lowest speed.
SpawnBoundsWitness ==
    /\ lastOp.op = "Balloon.create"
    /\ lastOp.rnd.r = 999
    /\ lastOp.rnd.x = 999
    /\ lastOp.rnd.speed = 0
    /\ balloons[1].speed = 600

\* C21: in a session begun by startGame, when a tap found or left lives at 0
\* and the engine running, the update called next leaves the engine ended.
LivesZeroForcesGameOver ==
    [][ (/\ Tapped
         /\ state.gameStarted
         /\ (lastOp.before.lives <= 0 \/ state.lives <= 0)
         /\ lastOp'.op = "update"
         /\ lastOp'.ran) => (state'.gameOver /\ ~state'.running) ]_vars

\* The deltaTime of the last update.
DeltaTime == lastUpdateTime - lastOp.before.lastUpdateTime

\* A balloon the last update found, after that update's movement step.
Moved(b) ==
    balloonUpdate(b, DeltaTime, isFreezeActive(lastOp.before.activePowerUps),
                  isActive(lastOp.before.activePowerUps, "slow"),
                  isMagnetActive(lastOp.before.activePowerUps),
                  dimensions.width, dimensions.height, now)

OffTop(b) == b.y < -b.r

Expired(b) == now - b.birth > b.lifespan

\* The balloons the last update found whose cull costs a life.
Costly ==
    { i \in 1..Len(lastOp.before.balloons) :
        LET b == Moved(lastOp.before.balloons[i])
        IN  ~OffTop(b) /\ Expired(b) /\ b.type \notin {"bomb", "heart"} }

\* The balloons the last update found that it keeps, moved, in order.
Kept ==
    SelectSeq([i \in 1..Len(lastOp.before.balloons) |-> Moved(lastOp.before.balloons[i])],
              LAMBDA b : ~OffTop(b) /\ ~Expired(b))

\* C22: an update keeps, of the balloons it found, exactly those that after
\* the movement step are neither off the top (y < -r) nor expired, followed
\* by the balloon it spawned if that one is neither; it loses one life for
\* each balloon that is expired, not off the top and neither bomb nor heart,
\* and no other life.
CullStep ==
    Updated =>
        /\ Len(balloons) \in { Len(Kept), Len(Kept) + 1 }
        /\ SubSeq(balloons, 1, Len(Kept)) = Kept
        /\ \A i \in 1..Len(balloons) : ~OffTop(balloons[i]) /\ ~Expired(balloons[i])
        /\ Len(balloons) > Len(Kept) => lastSpawnTime = now
        /\ state.lives = lastOp.before.lives - Cardinality(Costly)
        /\ Len(EventsOf("onLifeLost")) = Cardinality(Costly)

\* An update that culls on screen an expired normal balloon and an expired
\* bomb or heart: one life lost.
CullStepWitness ==
    /\ Updated
    /\ Cardinality(Costly) = 1
    /\ \E i \in 1..Len(lastOp.before.balloons) :
          LET b == Moved(lastOp.before.balloons[i])
          IN  ~OffTop(b) /\ Expired(b) /\ b.type \in {"bomb", "heart"}
    /\ state.lives = lastOp.before.lives - 1

\* The balloons the last tap found whose circle holds the tapped point, the
\* boundary included.
Covering ==
    { i \in 1..Len(lastOp.before.balloons) :
        LET b  == lastOp.before.balloons[i]
            dx == lastOp.x - b.x
            dy == lastOp.y - b.y
        IN  dx * dx + dy * dy <= b.r * b.r }

\* The most recently spawned of them.
Newest == CHOOSE i \in Covering : \A j \in Covering : j <= i

\* C23: a tap pops the most recently spawned balloon whose circle holds the
\* point (boundary included): exactly that balloon leaves the collection,
\* the others stay in place, and one pop notification carries its type and
\* its table value; a tap inside no balloon leaves the collection as it was
\* and notifies no pop.
PopsNewestHit ==
    Tapped =>
        IF Covering = {}
        THEN /\ balloons = lastOp.before.balloons
             /\ EventsOf("onBalloonPop") = << >>
        ELSE LET b == lastOp.before.balloons[Newest]
             IN  /\ balloons = Splice(lastOp.before.balloons, Newest)
                 /\ EventsOf("onBalloonPop") =
                       << << "onBalloonPop", b.type, BALLOON_TYPES[b.type].points >> >>

\* A tap at the centre of one balloon that lies inside a newer balloon too:
\* the newer one is popped, the tapped one stays, with a balloon after it.
PopsNewestWitness ==
    /\ Tapped
    /\ Cardinality(Covering) >= 2
    /\ lastOp.x = lastOp.before.balloons[1].x
    /\ lastOp.y = lastOp.before.balloons[1].y
    /\ Newest = 2
    /\ Len(lastOp.before.balloons) >= 3
    /\ balloons[1] = lastOp.before.balloons[1]
    /\ balloons[2] = lastOp.before.balloons[3]

\* The last tap popped a balloon of a power-up category.
PowerUpPopped ==
    /\ Tapped
    /\ Covering # {}
    /\ \E k \in 1..Len(PowerUpTypes) : TapTarget = PowerUpTypes[k]

\* C24: the pop of a balloon of a power-up category leaves one effect of that
\* type active with the configured powerupDuration as remaining time, a
\* running one having been deactivated first; it adds 10 times the
\* multiplier in force when the bonus is added (2 when the multiplier effect
\* was active or is the one just activated) to score, increments the combo
\* count by one, and leaves lives unchanged.
PowerUpPop ==
    PowerUpPopped =>
        LET type == TapTarget
            m == IF \/ isActive(lastOp.before.activePowerUps, "multiplier")
                    \/ type = "multiplier"
                 THEN 2 ELSE 1
            was == MapHas(lastOp.before.activePowerUps, type)
        IN  /\ Cardinality(EntriesOf(activePowerUps, type)) = 1
            /\ MapGet(activePowerUps, type) =
                  [ type |-> type, duration |-> config.powerupDuration,
                    active |-> TRUE, timeLeft |-> config.powerupDuration ]
            /\ \A k \in 1..Len(lastOp.before.activePowerUps) :
                  LET old == lastOp.before.activePowerUps[k]
                  IN  old.type # type => MapGet(activePowerUps, old.type) = old
            /\ [k \in 1..Len(callbacks) |-> callbacks[k].cb] =
                  IF was THEN << "onDeactivate", "onActivate" >>
                         ELSE << "onActivate" >>
            /\ EventsOf("onPowerUpActivate") = << << "onPowerUpActivate", type >> >>
            /\ EventsOf("onScoreUpdate")[1] =
                  << "onScoreUpdate", lastOp.before.score + 10 * m, m >>
            /\ state.score >= lastOp.before.score + 10 * m
            /\ comboCount = lastOp.before.comboCount + 1
            /\ comboTimer = config.comboTimeout
            /\ state.lives = lastOp.before.lives

\* A power-up balloon popped while an effect of its type has used part of
\* its time.
PowerUpPopWitness ==
    /\ PowerUpPopped
    /\ MapHas(lastOp.before.activePowerUps, TapTarget)
    /\ MapGet(lastOp.before.activePowerUps, TapTarget).timeLeft < config.powerupDuration
    /\ MapGet(activePowerUps, TapTarget).timeLeft = config.powerupDuration

\* The callbacks of the last registry call that carry an entry of a type.
CallbacksFor(type) == SelectSeq(callbacks, LAMBDA c : c.powerUp.type = type)

\* C25: the registry's update(dt), dt >= 0, takes dt off the remaining time
\* of every entry; an entry left with <= 0 is marked inactive, is no longer
\* in the active set, and gets one onDeactivate and no onUpdate; an entry
\* left with > 0 stays active and gets one onUpdate and nothing else.
RegistryTick ==
    lastOp.op = "PowerUpManager.update" =>
        /\ lastOp.deltaTime >= 0
        /\ Len(callbacks) = Len(lastOp.before)
        /\ \A i \in 1..Len(lastOp.before) :
              LET old  == lastOp.before[i]
                  left == old.timeLeft - lastOp.deltaTime
                  cbs  == CallbacksFor(old.type)
              IN  /\ Len(cbs) = 1
                  /\ cbs[1].powerUp.timeLeft = left
                  /\ IF left <= 0
                     THEN /\ cbs[1].cb = "onDeactivate"
                          /\ ~cbs[1].powerUp.active
                          /\ ~MapHas(activePowerUps, old.type)
                          /\ ~isActive(activePowerUps, old.type)
                     ELSE /\ cbs[1].cb = "onUpdate"
                          /\ MapGet(activePowerUps, old.type) =
                                [old EXCEPT !.timeLeft = left]
                          /\ isActive(activePowerUps, old.type)
        /\ \A i \in 1..Len(activePowerUps) :
              MapHas(lastOp.before, activePowerUps[i].type)

\* An update that leaves one entry with exactly 0 and another with time to
\* run.
RegistryTickWitness ==
    /\ lastOp.op = "PowerUpManager.update"
    /\ lastOp.deltaTime > 0
    /\ \E i \in 1..Len(lastOp.before) :
          lastOp.before[i].timeLeft - lastOp.deltaTime = 0
    /\ Len(activePowerUps) >= 1

\* The lives the last call took.
LivesLost == lastOp.before.lives - state.lives

\* C26: a tap that pops a bomb without defuser takes one life, an update
\* takes one life for each expired on-screen balloon that is neither bomb
\* nor heart; a call that took lives leaves the combo count and the combo
\* timer at 0 and has emitted one onLifeLost for each life, and a call that
\* took none has emitted no onLifeLost.
LifeLossResetsCombo ==
    /\ (TappedType("bomb") /\ ~isActive(lastOp.before.activePowerUps, "defuser")) =>
          LivesLost = 1
    /\ Updated => LivesLost = Cardinality(Costly)
    /\ (Tapped \/ Updated) =>
          IF LivesLost > 0
          THEN /\ comboCount = 0
               /\ comboTimer = 0
               /\ Len(EventsOf("onLifeLost")) = LivesLost
          ELSE EventsOf("onLifeLost") = << >>

\* An update that culls an expired balloon on screen while a streak's
\* countdown has time left.
LifeLossWitness ==
    /\ Updated
    /\ LivesLost = 1
    /\ lastOp.before.comboCount > 0
    /\ CountdownLeft > 0
    /\ comboCount = 0
    /\ comboTimer = 0

\* The last call was an update that found the freeze effect active.
Frozen == Updated /\ isActive(lastOp.before.activePowerUps, "freeze")

\* The balloons the last update found that are neither off the top nor
\* expired where it found them.
Standing ==
    SelectSeq(lastOp.before.balloons, LAMBDA b : ~OffTop(b) /\ ~Expired(b))

\* C27: an update that finds the freeze effect active leaves every balloon
\* it keeps where it found it, slow and magnet active or not, and a balloon
\* it spawns at its spawn position below the bottom edge.
FreezeStopsAll ==
    Frozen =>
        /\ SubSeq(balloons, 1, Len(Standing)) = Standing
        /\ Len(balloons) \in { Len(Standing), Len(Standing) + 1 }
        /\ Len(balloons) > Len(Standing) =>
              balloons[Len(balloons)].y = dimensions.height + balloons[Len(balloons)].r

\* A frozen update with magnet active too that finds a balloon away from the
\* centre of the canvas.
FreezeWitness ==
    /\ Frozen
    /\ isActive(lastOp.before.activePowerUps, "magnet")
    /\ lastOp.before.balloons # << >>
    /\ Abs(lastOp.before.balloons[1].y - dimensions.height \div 2) > 100
    /\ balloons[1] = lastOp.before.balloons[1]

\* What the last update's spawn step adds to the collection it hands to the
\* movement step, for the random numbers rnd.
Spawned(rnd) ==
    IF now - lastOp.before.lastSpawnTime > config.spawnRate[getCurrentDifficulty]
    THEN << CreatedFor(getCurrentDifficulty, rnd, now) >>
    ELSE << >>

\* The balloons of a list after the last update's movement and cull.
MovedAndCulled(bs) ==
    SelectSeq([i \in 1..Len(bs) |-> Moved(bs[i])],
              LAMBDA b : ~OffTop(b) /\ ~Expired(b))

\* The effects the last update found, after its power-up tick.
Ticked ==
    SelectSeq([i \in 1..Len(lastOp.before.activePowerUps) |->
                  [lastOp.before.activePowerUps[i] EXCEPT !.timeLeft = @ - DeltaTime]],
              LAMBDA p : p.timeLeft > 0)

\* C28: an update spawns, then moves and culls, then ticks the power-ups:
\* the balloon it spawns takes part in its movement step; the movement step
\* is governed by the effects the update found, those activated by a tap
\* just before and those whose time runs out in this update included; and
\* the effects whose time has run out are no longer active when it returns,
\* so that they govern no later update.
StepOrder ==
    (Updated /\ state.lives > 0) =>
        /\ \E rnd \in EffectRands :
              balloons = MovedAndCulled(lastOp.before.balloons \o Spawned(rnd))
        /\ activePowerUps = Ticked
        /\ particles = particleSystemUpdate(lastOp.before.particles, DeltaTime)

\* An update in which the time of the freeze effect runs out and that leaves
\* the balloon it found where it was, while the balloon would have left the
\* canvas had the effect ended before the movement step.
StepOrderWitness ==
    /\ Updated
    /\ isActive(lastOp.before.activePowerUps, "freeze")
    /\ MapGet(lastOp.before.activePowerUps, "freeze").timeLeft <= DeltaTime
    /\ ~isActive(activePowerUps, "freeze")
    /\ lastOp.before.balloons # << >>
    /\ balloons # << >>
    /\ balloons[1] = lastOp.before.balloons[1]
    /\ OffTop([balloons[1] EXCEPT !.y = @ + Step(balloons[1].vy, 2, DeltaTime)])

\* The categories drawn from in the power-up branch of the spawner.
BranchCategories ==
    << "slow", "multiplier", "freeze", "magnet", "defuser", "heart", "special" >>

\* C29: a balloon from Balloon.create is a bomb exactly when the type draw
\* is below the bomb probability, a normal balloon exactly when the draw is
\* at or above the sum of the bomb and power-up probabilities, and otherwise
\* the k-th of slow, multiplier, freeze, magnet, defuser, heart, special
\* when the index draw lies in the k-th seventh of [0, 1).
SpawnCategories ==
    lastOp.op = "Balloon.create" =>
        LET type == balloons[1].type
            bomb == config.bombChance[lastOp.difficulty]
            both == bomb + config.powerupChance[lastOp.difficulty]
            u    == lastOp.rnd.type
            v    == lastOp.rnd.index
        IN  /\ type = "bomb" <=> u < bomb
            /\ type = "normal" <=> u >= both
            /\ (bomb <= u /\ u < both) =>
                  \E k \in 1..7 : /\ type = BranchCategories[k]
                                  /\ (k - 1) * 1000 <= 7 * v
                                  /\ 7 * v < k * 1000

\* C29 as stated: a balloon from Balloon.create is a bomb, a slow, a
\* multiplier, a freeze, a magnet, a defuser or a normal balloon.
SpawnsNoOtherCategory ==
    lastOp.op = "Balloon.create" =>
        balloons[1].type \in
            { "bomb", "slow", "multiplier", "freeze", "magnet", "defuser", "normal" }

\* A heart from the power-up branch.
SpawnCategoriesWitness ==
    /\ lastOp.op = "Balloon.create"
    /\ lastOp.rnd.type >= config.bombChance[lastOp.difficulty]
    /\ balloons[1].type = "heart"

\* The entries of a registry map less d, without those left with <= 0.
Less(m, d) ==
    SelectSeq([i \in 1..Len(m) |-> [m[i] EXCEPT !.timeLeft = @ - d]],
              LAMBDA p : p.timeLeft > 0)

\* C30: resumeGame sets the delta-time anchor to the clock and changes no
\* effect and no countdown; the update called next takes off the effects'
\* remaining times and off the combo countdown the time the clock has
\* advanced since the resume and no more (when it ends the game it clears
\* the effects, when it takes a life it zeroes the countdown); an update
\* called while the engine is not running changes neither.
ResumeAnchors ==
    [][ /\ lastOp'.op = "resumeGame" =>
              /\ lastUpdateTime' = now
              /\ UNCHANGED << activePowerUps, comboTimer, comboCount >>
        /\ (lastOp'.op = "update" /\ ~state.running) =>
              UNCHANGED << activePowerUps, comboTimer, comboCount, lastUpdateTime >>
        /\ (lastOp.op = "resumeGame" /\ lastOp'.op = "update") =>
              /\ lastUpdateTime' = now'
              /\ activePowerUps' =
                    IF state'.gameOver THEN << >>
                    ELSE Less(activePowerUps, now' - now)
              /\ comboTimer' =
                    IF state'.lives < state.lives THEN 0
                    ELSE IF comboTimer <= 0 THEN comboTimer
                    ELSE comboTimer - (now' - now) ]_vars

\* The update after a resume that followed a pause during which the clock
\* advanced: an active effect and the running combo countdown have lost the
\* frame's time only.
ResumeWitness ==
    /\ Updated
    /\ lastOp.pausedFor > 0
    /\ lastOp.before.state.gameStarted
    /\ lastOp.before.activePowerUps # << >>
    /\ activePowerUps = Less(lastOp.before.activePowerUps, lastOp.elapsed)
    /\ activePowerUps # << >>
    /\ lastOp.before.comboTimer > lastOp.elapsed
    /\ comboTimer = lastOp.before.comboTimer - lastOp.elapsed

\* C31: in a session begun by startGame, the first update after a resume
\* takes no life when every balloon it finds is, the time of the pause left
\* out, no older than its lifespan.
PauseDoesNotAge ==
    (/\ Updated
     /\ lastOp.pausedFor > 0
     /\ lastOp.before.state.gameStarted
     /\ ~lastOp.before.state.gameOver
     /\ \A i \in 1..Len(lastOp.before.balloons) :
           LET b == lastOp.before.balloons[i]
           IN  now - b.birth - lastOp.pausedFor <= b.lifespan) =>
        /\ state.lives = lastOp.before.lives
        /\ EventsOf("onLifeLost") = << >>

\* C32: when the engine is running after an update of the session, the
\* driver calls update once more or the engine leaves the running phase.
DriverKeepsAdvancing ==
    (state.running /\ clockSteps = 1) ~> (~state.running \/ clockSteps > 1)

\* C33: the combo field of the snapshot of getState() is the engine's combo
\* count after every operation.
SnapshotComboIsCount == getState(Engine).combo = comboCount

\* C34: the pop of a multiplier balloon adds 20 to score, plus 2 * (10 * n)
\* when the combo count becomes n >= 2, whether or not a multiplier effect
\* was active before the pop, and each of its score notifications carries
\* the multiplier 2.
MultiplierPop ==
    TappedType("multiplier") =>
        /\ state.score = lastOp.before.score + 20
                             + (IF comboCount >= 2 THEN 2 * (10 * comboCount) ELSE 0)
        /\ \A i \in 1..Len(EventsOf("onScoreUpdate")) :
              EventsOf("onScoreUpdate")[i][3] = 2

\* A multiplier balloon popped as the second of a streak with no multiplier
\* effect active before the pop: 20 + 40.
MultiplierPopWitness ==
    /\ TappedType("multiplier")
    /\ ~isActive(lastOp.before.activePowerUps, "multiplier")
    /\ comboCount = 2
    /\ state.score = lastOp.before.score + 60

\* C35: a bomb popped while defuser is active adds 1 times the multiplier
\* in force to score and leaves the combo count and the combo timer as they
\* were.
DefusedBomb ==
    (TappedType("bomb") /\ isActive(lastOp.before.activePowerUps, "defuser")) =>
        /\ state.score = lastOp.before.score
                             + getScoreMultiplier(lastOp.before.activePowerUps)
        /\ comboCount = lastOp.before.comboCount
        /\ comboTimer = lastOp.before.comboTimer

\* A defused bomb popped in a running streak while the multiplier is
\* active: the score rises by 2 and the streak stays where it was.
DefusedBombWitness ==
    /\ TappedType("bomb")
    /\ isActive(lastOp.before.activePowerUps, "defuser")
    /\ isActive(lastOp.before.activePowerUps, "multiplier")
    /\ lastOp.before.comboCount >= 1
    /\ lastOp.before.comboTimer > 0
    /\ state.score = lastOp.before.score + 2
    /\ comboCount = lastOp.before.comboCount

\* C36: after any sequence of registry operations every entry of the active
\* set is active with 0 < timeLeft <= duration, isActive(type) holds exactly
\* for the types in the set, and clearAll leaves the set empty having fired
\* one onDeactivate, and nothing else, per entry that was in it.
RegistryEntries ==
    /\ \A i \in 1..Len(activePowerUps) :
          /\ activePowerUps[i].active
          /\ 0 < activePowerUps[i].timeLeft
          /\ activePowerUps[i].timeLeft <= activePowerUps[i].duration
    /\ \A k \in 1..Len(PowerUpTypes) :
          isActive(activePowerUps, PowerUpTypes[k])
              <=> EntriesOf(activePowerUps, PowerUpTypes[k]) # {}
    /\ lastOp.op = "PowerUpManager.clearAll" =>
          /\ activePowerUps = << >>
          /\ ~hasAnyActive(activePowerUps)
          /\ Len(callbacks) = Len(lastOp.before)
          /\ \A i \in 1..Len(lastOp.before) :
                /\ callbacks[i].cb = "onDeactivate"
                /\ callbacks[i].powerUp.type = lastOp.before[i].type

\* clearAll called with two effects active, one of them part-way through
\* its time.
RegistryEntriesWitness ==
    /\ lastOp.op = "PowerUpManager.clearAll"
    /\ Len(lastOp.before) = 2
    /\ lastOp.before[1].timeLeft < lastOp.before[1].duration
    /\ Len(callbacks) = 2
    /\ activePowerUps = << >>

\* C37: a step that changes highScore is a setHighScore: update,
\* handleInput, startGame, pauseGame, resumeGame, resetGame and the game-over
\* transition leave it as it was, whatever the score.
HighScoreOnlySet ==
    [][state'.highScore # state.highScore => lastOp'.op = "setHighScore"]_vars

\* An update has ended the game with a score above the highScore set
\* before.
HighScoreWitness ==
    /\ lastOp.op = "update"
    /\ lastOp.ran
    /\ state.gameOver
    /\ state.highScore > 0
    /\ state.score > state.highScore
    /\ lastOp.before.state.highScore = state.highScore

=============================================================================
